---- MODULE Spec2Model ----
(***************************************************************************)
(* The process-scan edge function (lexical scoring variant) running        *)
(* against the scans / scan_results tables.                                *)
(*                                                                         *)
(* Every await of the handler is one step of a run, so invocations of the  *)
(* function interleave at exactly the points where the code yields.        *)
(* Scores are kept in hundredths of a point (87.5 is 8750).  A text is a   *)
(* sequence of tokens; "A" and "B" are the upper-case forms of the tokens  *)
(* "a" and "b".  A URL is a sequence whose first token is its scheme       *)
(* prefix.  A response of the AI gateway that is not a success carries an  *)
(* error body without choices.                                             *)
(***************************************************************************)
EXTENDS Integers, Sequences, FiniteSets, TLC

\* ---------------------------------------------------------------- bounds
MaxDocs == 1
MaxCompanies == 1
MaxQueries == 3
\* the most key terms, and the most candidates, the scorer is applied to on
\* its own
MaxTerms == 5
MaxProbe == 3
\* how often the clock advances
MaxTicks == 3

\* the invocations of the function that may be in flight together
Runs == {1, 2}

\* ------------------------------------------------------------- constants
\* a missing (null or undefined) text value; every text is a token sequence
NULL == <<"null">>
\* a request body without scanId
NoId == "undefined"
RegistryCap == 5
QueryCap == 2
PreviewLen == 200
SnippetLen == 500
UnlockHours == 24
PatentBase == 75
OtherBase == 55
BonusScale == 20
RandomSpan == 15
ScoreFloor == 30
ScoreCeil == 95
CheckMin == 0
CheckMax == 100
SourceTypes == {"patent", "startup", "news", "idestrim", "research"}

Min(a, b) == IF a < b THEN a ELSE b
Max(a, b) == IF a > b THEN a ELSE b
Range(s) == {s[i] : i \in 1..Len(s)}

\* ------------------------------------------------------------- the store
ScanIds == {"s1", "s2"}
RequestIds == {"s1", "ghost", NoId}
Statuses == {"processing", "completed", "failed"}

\* ------------------------------------------------------ text and URL model
Lower(t) == IF t = "A" THEN "a" ELSE IF t = "B" THEN "b" ELSE t
LowerText(s) == [i \in 1..Len(s) |-> Lower(s[i])]
\* String.prototype.includes: the empty string occurs in every text
Includes(text, term) == term = "" \/ term \in Range(text)
\* String.prototype.substring(0, k)
Substring(s, k) == SubSeq(s, 1, Min(Len(s), k))
\* String.prototype.startsWith
StartsWith(u, prefix) == Len(u) > 0 /\ u[1] = prefix
\* a template literal renders a missing value as the text "undefined"
Render(v) == IF v = NULL THEN <<"undefined">> ELSE v
\* JavaScript truthiness of a text value
Falsy(v) == v = NULL \/ v = <<>>

PatentUrl(number) == <<"https://", "patents.google.com/patent/US">> \o number
HttpsUrl == <<"https://", "site">>
HttpUrl == <<"http://", "site">>
FtpUrl == <<"ftp://", "site">>
EmptyUrl == <<>>

\* ------------------------------------------------- candidate normalizers
\* one registry document -> candidate
PatentCandidate(patent) ==
    [ origin        |-> "uspto",
      title         |-> IF Falsy(patent.inventionTitle) THEN <<"Untitled Patent">>
                        ELSE patent.inventionTitle,
      owner         |-> IF Falsy(patent.assigneeEntityName) THEN <<"Unknown">>
                        ELSE patent.assigneeEntityName,
      country       |-> "United States",
      source_type   |-> "patent",
      legal_status  |-> "Granted",
      snippet       |-> IF Falsy(patent.abstractText) THEN <<>>
                        ELSE Substring(patent.abstractText, PreviewLen),
      url           |-> IF Falsy(patent.patentNumber) THEN NULL
                        ELSE PatentUrl(patent.patentNumber) ]

\* a parsed value that is truthy and not a string, such as the number 42
NumberValue == <<"42">>
IsString(v) == v # NumberValue
\* company.url.startsWith is not a function: the guard raises a TypeError
UrlCheckThrows(company) == ~Falsy(company.url) /\ ~IsString(company.url)

\* the guard on an AI-extracted company: URL present and http(s)
CompanyUrlOk(company) ==
    /\ ~Falsy(company.url)
    /\ (StartsWith(company.url, "http://") \/ StartsWith(company.url, "https://"))

\* one AI-extracted company -> candidate
CompanyCandidate(company, q) ==
    [ origin        |-> q,
      title         |-> company.title,
      owner         |-> company.owner,
      country       |-> "Global",
      source_type   |-> "startup",
      legal_status  |-> "Active",
      snippet       |-> company.snippet,
      url           |-> company.url ]

\* a status that is null, in a field whose values are strings
NoStatus == "null"

\* the earlier lexical variant: one item of the AI array -> candidate; a
\* missing type or status is the empty string
Innovation(title, country, type, url) ==
    [title |-> title, owner |-> title, country |-> country, type |-> type,
     status |-> "", snippet |-> <<"x">>, url |-> url]
InnovationCandidate(item) ==
    [ origin        |-> "q1",
      title         |-> item.title,
      owner         |-> item.owner,
      country       |-> item.country,
      source_type   |-> IF item.type = "" THEN "patent" ELSE item.type,
      legal_status  |-> IF item.status = "" THEN NoStatus ELSE item.status,
      snippet       |-> item.snippet,
      url           |-> item.url ]

\* ------------------------------------------------------------ the scorer
\* new Set(searchTerms.toLowerCase().split(',').map(trim))
InputTerms(searchTerms) == {Lower(t) : t \in Range(searchTerms)}

\* `${result.title} ${result.snippet}`.toLowerCase()
ResultText(result) == LowerText(Render(result.title) \o <<" ">> \o Render(result.snippet))

MatchCount(result, inputTerms) ==
    Cardinality({t \in inputTerms : Includes(ResultText(result), t)})

BaseSimilarity(result) ==
    IF result.source_type = "patent" /\ result.country = "United States"
    THEN PatentBase ELSE OtherBase

\* Math.max(30, Math.min(95, x)) on a value x = num / den
ClampNoCeil(num, den) == Max(ScoreFloor * 100 * den, num)
ClampToCheck(num, den) == Max(CheckMin * 100 * den, Min(CheckMax * 100 * den, num))
Clamp(num, den) == Max(ScoreFloor * 100 * den, Min(ScoreCeil * 100 * den, num))

\* Math.round(similarityScore * 100), the score in hundredths;
\* rnd is (Math.random() - 0.5) * 15 in hundredths
SimilarityScore(base, matchCount, size, rnd) ==
    LET num == (base * 100 + rnd) * size + BonusScale * 100 * matchCount
        c   == Clamp(num, size)
    IN  (2 * c + size) \div (2 * size)

\* the check on the URL of a scored result
HasValidUrlNoFilter(result) == TRUE
HasValidUrl(result) ==
    /\ ~Falsy(result.url)
    /\ (StartsWith(result.url, "http://") \/ StartsWith(result.url, "https://"))

ToRowWholeSnippet(id, result, score, arrival) ==
    [ scan_id          |-> id,
      title            |-> result.title,
      owner            |-> result.owner,
      country          |-> result.country,
      similarity_score |-> score,
      source_type      |-> result.source_type,
      legal_status     |-> result.legal_status,
      snippet          |-> result.snippet,
      url              |-> result.url,
      origin           |-> result.origin,
      arrival          |-> arrival ]

\* the row built for one result
ToRow(id, result, score, arrival) ==
    [ scan_id          |-> id,
      title            |-> result.title,
      owner            |-> result.owner,
      country          |-> result.country,
      similarity_score |-> score,
      source_type      |-> result.source_type,
      legal_status     |-> result.legal_status,
      snippet          |-> IF result.snippet = NULL THEN NULL
                           ELSE Substring(result.snippet, SnippetLen),
      url              |-> result.url,
      origin           |-> result.origin,
      arrival          |-> arrival ]

RECURSIVE ScoredRowsHoisted(_, _, _, _, _)
ScoredRowsHoisted(id, results, inputTerms, rnd, i) ==
    IF i > Len(results) THEN <<>>
    ELSE LET result == results[i]
             seen[k \in 0..i] == IF k = 0 THEN 0
                                 ELSE seen[k - 1] + MatchCount(results[k], inputTerms)
             score  == SimilarityScore(BaseSimilarity(result), seen[i],
                                       Cardinality(inputTerms), rnd[i])
         IN  (IF HasValidUrl(result) THEN <<ToRow(id, result, score, i)>> ELSE <<>>)
             \o ScoredRowsHoisted(id, results, inputTerms, rnd, i + 1)

\* allResults.map(...).filter(result => result !== null)
RECURSIVE ScoredRows(_, _, _, _, _)
ScoredRows(id, results, inputTerms, rnd, i) ==
    IF i > Len(results) THEN <<>>
    ELSE LET result == results[i]
             score  == SimilarityScore(BaseSimilarity(result),
                                       MatchCount(result, inputTerms),
                                       Cardinality(inputTerms), rnd[i])
         IN  (IF HasValidUrl(result) THEN <<ToRow(id, result, score, i)>> ELSE <<>>)
             \o ScoredRows(id, results, inputTerms, rnd, i + 1)

\* the earlier lexical variant: allResults.map(...), with no check on the URL
RECURSIVE EarlierScoredRows(_, _, _, _, _)
EarlierScoredRows(id, results, inputTerms, rnd, i) ==
    IF i > Len(results) THEN <<>>
    ELSE LET result == results[i]
             score  == SimilarityScore(BaseSimilarity(result),
                                       MatchCount(result, inputTerms),
                                       Cardinality(inputTerms), rnd[i])
         IN  <<ToRow(id, result, score, i)>>
             \o EarlierScoredRows(id, results, inputTerms, rnd, i + 1)

\* Array.prototype.sort with (a, b) => b.similarity_score - a.similarity_score:
\* a stable sort, so a row goes behind every row that does not score lower
RECURSIVE InsertUnstable(_, _)
InsertUnstable(row, sorted) ==
    IF sorted = <<>> THEN <<row>>
    ELSE IF Head(sorted).similarity_score > row.similarity_score
         THEN <<Head(sorted)>> \o InsertUnstable(row, Tail(sorted))
         ELSE <<row>> \o sorted

RECURSIVE InsertByScore(_, _)
InsertByScore(row, sorted) ==
    IF sorted = <<>> THEN <<row>>
    ELSE IF Head(sorted).similarity_score >= row.similarity_score
         THEN <<Head(sorted)>> \o InsertByScore(row, Tail(sorted))
         ELSE <<row>> \o sorted

RECURSIVE SortUpTo(_, _)
SortUpTo(rows, k) ==
    IF k = 0 THEN <<>> ELSE InsertByScore(rows[k], SortUpTo(rows, k - 1))

SortByScore(rows) == SortUpTo(rows, Len(rows))

\* ------------------------------------------------ what the services answer
\* (Math.random() - 0.5) * 15 lies in [-7.5, 7.5); in hundredths
RandVals(wide) == IF wide THEN {-(RandomSpan * 50), RandomSpan * 50 - 1}
                  ELSE {0}

\* the content of the key-term answer, split at the commas and trimmed
TermLists(wide) == IF wide THEN {<<"A", "b">>, <<"a", "b", "c">>, <<"">>}
                   ELSE {<<"a">>}

\* registry documents
Doc(title, abstract, number) ==
    [inventionTitle |-> title, assigneeEntityName |-> NULL,
     abstractText |-> abstract, patentNumber |-> number]
DocKinds(wide) ==
    IF wide THEN {Doc(NULL, NULL, <<"123">>), Doc(<<"A">>, <<"b">>, NULL)}
    ELSE {Doc(<<"a">>, <<"x">>, <<"123">>)}

\* items of the array an AI extraction answers with
Company(title, snippet, url) ==
    [title |-> title, owner |-> title, snippet |-> snippet, url |-> url]
CompanyKinds(wide) ==
    IF wide THEN {Company(<<"a">>, <<"b">>, HttpsUrl), Company(<<"x">>, <<"x">>, HttpUrl),
                  Company(<<"a">>, <<"x">>, FtpUrl), Company(<<"a">>, <<"x">>, NULL)}
    ELSE {Company(<<"a">>, <<"x">>, HttpsUrl)}

SeqsUpTo(S, n) == UNION {[1..k -> S] : k \in 0..n}

\* ------------------------------------------------------------------ state
VARIABLES
    scans,            \* the scans table: id -> row
    scan_results,     \* the scan_results table, in insertion order
    pc,               \* where each invocation of the handler stands
    scanId,           \* body.scanId of the invocation
    supabase,         \* whether the invocation has created its client
    searchTerms,      \* the extracted key terms
    allResults,       \* the candidates gathered so far
    queries,          \* AI queries still to run (after slice(0, 2))
    resultsToInsert,  \* the scored, filtered and sorted rows
    error,            \* the message of the error caught
    response,         \* the response returned
    log,              \* per invocation: services contacted, each source's outcome
                      \* and raw hits, the cause of a failure, the status write
                      \* and whether it changed the stored status
    probe,            \* one application of the scorer outside an invocation:
                      \* its inputs and, once applied, its outputs
    scan_unlocks,     \* the scan_unlocks table, in insertion order
    clock,            \* the time in hours, and how often it has advanced
    issued,           \* the scan ids gen_random_uuid() has given out
    vp,               \* the invocation of verify-payment: where it stands, its
                      \* request, the user found, the expiry computed, its response
    vec,              \* the invocation of the vector variant of process-scan:
                      \* where it stands, its locals, its response
    mkt,              \* the invocation of the market-analysis variant of
                      \* process-scan: where it stands, its locals, its response
    form,             \* the submission form: where handleScan stands and the
                      \* scan it created
    view,             \* the ScanResults view: its React state, its requests in
                      \* flight and the realtime events it has handled
    grants            \* for each unlock verify-payment has written: the payment
                      \* reference it was given, the user and the scan

vars == <<scans, scan_results, pc, scanId, supabase, searchTerms, allResults,
          queries, resultsToInsert, error, response, log, probe,
          scan_unlocks, clock, issued, vp, vec, mkt, form, view, grants>>
\* the state of process-scan and its tables
handler == <<scans, scan_results, pc, scanId, supabase, searchTerms, allResults,
             queries, resultsToInsert, error, response, log>>
payments == <<scan_unlocks, clock, issued, vp>>
\* what stands aside of an invocation of process-scan
\* the other programs of the repository
others == <<mkt, form, view, grants>>
aside == <<probe, payments, vec, others>>
store == <<scans, scan_results>>
aggregation == <<searchTerms, allResults, queries>>

NoResponse == [status |-> 0, success |-> FALSE, resultsCount |-> 0, error |-> ""]
Success(n) == [status |-> 200, success |-> TRUE, resultsCount |-> n, error |-> ""]
Failure(msg) == [status |-> 500, success |-> FALSE, resultsCount |-> 0, error |-> msg]

Origins == {"uspto", "q1", "q2"}
NoLog == [contacted |-> {}, cause |-> "none", wrote |-> "none", changed |-> FALSE,
          source |-> [o \in Origins |-> "none"], hits |-> [o \in Origins |-> <<>>]]

\* verify-payment has not been invoked
NoVp == [pc |-> "idle", auth |-> FALSE, user |-> NoId, reference |-> NoId,
         scanId |-> NoId, gateway |-> "none", expiresAt |-> 0,
         status |-> 0, success |-> FALSE, message |-> ""]

\* the vector variant has not been invoked
NoVec == [pc |-> "idle", scanId |-> NoId, embedding |-> <<>>, allResults |-> <<>>,
          next |-> 0, failed |-> {}, resultsToInsert |-> <<>>,
          response |-> NoResponse, cause |-> "none", wrote |-> "none"]

\* a request of the view that has not been sent
NoCheck == [pc |-> "idle", status |-> ""]

\* the ScanResults view before it mounts: the initial values of its state
NoView == [pc |-> "idle", scanId |-> NoId, results |-> <<>>, isLoading |-> TRUE,
           scanStatus |-> "processing", fetch |-> "idle", fetched |-> <<>>,
           check |-> NoCheck, recheck |-> NoCheck, timer |-> "off",
           base |-> 0, delivered |-> 0, notified |-> ""]

\* nothing has been submitted through the form
NoForm == [pc |-> "idle", scanId |-> NoId]

\* the market-analysis variant has not been invoked
NoAnalysis == [tech_score |-> 0, trend |-> "none"]
NoMkt == [pc |-> "idle", bodyUsed |-> FALSE, body |-> NoId, scanId |-> NoId,
          analysis |-> NoAnalysis, error |-> "", response |-> NoResponse,
          cause |-> "none", wrote |-> "none"]

\* no application of the scorer outside an invocation
NoProbe == [kind |-> "none", applied |-> FALSE, base |-> 0, matchCount |-> 0,
            size |-> 1, rnd |-> 0, score |-> 0, searchTerms |-> <<>>,
            results |-> <<>>, rows |-> <<>>, alone |-> <<>>]

\* the inputs of the scorer applied on its own: a base similarity, the number
\* of matched terms out of the number of terms, and the random variation
\* (Math.random() - 0.5) * 15 in hundredths, at every quarter point
ProbeRands == {k * 25 - RandomSpan * 50 : k \in 0..(RandomSpan * 4)}
ScoreProbes ==
    {[NoProbe EXCEPT !.kind = "score", !.base = b, !.matchCount = m[2],
                     !.size = m[1], !.rnd = x] :
        b \in {PatentBase, OtherBase},
        m \in {n \in (1..MaxTerms) \X (0..MaxTerms) : n[2] <= n[1]},
        x \in ProbeRands}

\* the inputs of the map over allResults applied on its own: key terms and a
\* list of candidates as the sources deliver them
ProbeCandidates ==
    {PatentCandidate(doc) : doc \in DocKinds(TRUE)}
    \cup {CompanyCandidate(company, "q1") :
             company \in {c \in CompanyKinds(TRUE) : CompanyUrlOk(c)}}
\* a text of n characters, no two of the next seven alike
LongText(n) == [i \in 1..n |-> <<"a", "b", "c", "x", "y", "z", "w">>[(i % 7) + 1]]
\* candidates with every field present whose raw text is short, just over the
\* registry preview, and just under, at and over the snippet limit
SnippetLens == {1, PreviewLen + 1, SnippetLen - 1, SnippetLen, SnippetLen + 1}
LongCandidates ==
    {CompanyCandidate(Company(<<"A">>, LongText(n), HttpsUrl), "q1") : n \in SnippetLens}
    \cup {PatentCandidate([Doc(<<"A">>, LongText(n), <<"123">>)
                              EXCEPT !.assigneeEntityName = <<"Acme">>]) :
             n \in SnippetLens}
RowProbes ==
    {[NoProbe EXCEPT !.kind = "rows", !.searchTerms = t, !.results = results] :
        t \in TermLists(TRUE), results \in SeqsUpTo(ProbeCandidates, MaxProbe)}
    \cup {[NoProbe EXCEPT !.kind = "rows", !.searchTerms = <<"a">>, !.results = <<c>>] :
             c \in LongCandidates}

\* the inputs of the earlier variant's map applied on its own: key terms and
\* candidates as its two sources deliver them; the AI names the country and
\* the type of its items
EarlierCandidates ==
    {PatentCandidate(doc) : doc \in DocKinds(TRUE)}
    \cup {InnovationCandidate(Innovation(t[1], t[2], t[3], HttpsUrl)) :
             t \in {<<<<"a">>, "United States", "patent">>,
                     <<<<"a">>, "United States", "">>,
                     <<<<"b">>, "Germany", "patent">>,
                     <<<<"x">>, "United States", "startup">>}}
EarlierProbes ==
    {[NoProbe EXCEPT !.kind = "earlier", !.searchTerms = t, !.results = results] :
        t \in TermLists(TRUE), results \in SeqsUpTo(EarlierCandidates, MaxProbe - 1)}

\* the tables before any invocation: every scan is processing and carries
\* the text it was submitted with
InitWith(text_input, probes) ==
    /\ scans = [s \in ScanIds |->
                  [status |-> "processing", text_input |-> text_input, user_id |-> NULL,
                   image_url |-> NULL, text_embedding |-> NULL, created_at |-> 0]]
    /\ scan_results = <<>>
    /\ pc = [r \in Runs |-> "idle"]
    /\ scanId = [r \in Runs |-> NoId]
    /\ supabase = [r \in Runs |-> FALSE]
    /\ searchTerms = [r \in Runs |-> <<>>]
    /\ allResults = [r \in Runs |-> <<>>]
    /\ queries = [r \in Runs |-> 0]
    /\ resultsToInsert = [r \in Runs |-> <<>>]
    /\ error = [r \in Runs |-> ""]
    /\ response = [r \in Runs |-> NoResponse]
    /\ log = [r \in Runs |-> NoLog]
    /\ probe \in probes
    /\ scan_unlocks = <<>>
    /\ clock = [now |-> 0, ticks |-> 0]
    /\ issued = ScanIds
    /\ vp = NoVp
    /\ vec = NoVec
    /\ mkt = NoMkt
    /\ form = NoForm
    /\ view = NoView
    /\ grants = {}

Init == InitWith(<<"idea">>, {NoProbe})
\* scans.text_input is TEXT NOT NULL without a length check: a row inserted
\* with the empty string is accepted
InitEmptyText == InitWith(<<>>, {NoProbe})
\* the scorer is about to be applied to one of its inputs
InitScorer == InitWith(<<"idea">>, ScoreProbes \cup RowProbes)
InitLexical == InitWith(<<"idea">>, RowProbes \cup EarlierProbes)

\* throw inside the outer try: control passes to the catch block
Throw(r, msg, cause) ==
    /\ pc' = [pc EXCEPT ![r] = "catch"]
    /\ error' = [error EXCEPT ![r] = msg]
    /\ log' = [log EXCEPT ![r].cause = cause]

\* ------------------------------------------------------------ the handler
InvokeUnchecked(r, id) ==
    /\ pc[r] = "idle"
    /\ IF r = 1 THEN TRUE ELSE pc[r - 1] # "idle"
    /\ scanId' = [scanId EXCEPT ![r] = id]
    /\ supabase' = [supabase EXCEPT ![r] = TRUE]
    /\ pc' = [pc EXCEPT ![r] = "fetchScan"]
    /\ UNCHANGED <<error, log>>
    /\ UNCHANGED <<aside, store, aggregation, resultsToInsert, response>>

\* the request body is read and scanId is checked; the client is created
Invoke(r, id) ==
    /\ pc[r] = "idle"
    /\ IF r = 1 THEN TRUE ELSE pc[r - 1] # "idle"
    /\ scanId' = [scanId EXCEPT ![r] = id]
    /\ IF id = NoId
       THEN /\ Throw(r, "Scan ID is required", "no_id")
            /\ UNCHANGED supabase
       ELSE /\ supabase' = [supabase EXCEPT ![r] = TRUE]
            /\ pc' = [pc EXCEPT ![r] = "fetchScan"]
            /\ UNCHANGED <<error, log>>
    /\ UNCHANGED <<aside, store, aggregation, resultsToInsert, response>>

\* select('*').eq('id', scanId).single(): an error or no row is "Scan not found"
FetchScan(r) ==
    /\ pc[r] = "fetchScan"
    /\ \E storeOk \in BOOLEAN :
         IF storeOk /\ scanId[r] \in DOMAIN scans
         THEN /\ pc' = [pc EXCEPT ![r] = "extract"]
              /\ UNCHANGED <<error, log>>
         ELSE Throw(r, "Scan not found", "not_found")
    /\ UNCHANGED <<aside, store, scanId, supabase, aggregation, resultsToInsert, response>>

\* the key-term request: a thrown fetch, an error body (no choices) or a
\* malformed body throws; otherwise the content becomes searchTerms
KeyTermAnswers(wide) ==
    {[kind |-> k, terms |-> <<>>] : k \in {"throw", "non_success", "malformed"}}
    \cup {[kind |-> "terms", terms |-> t] : t \in TermLists(wide)}

ExtractKeyTermsUnchecked(r, wide) ==
    /\ pc[r] = "extract"
    /\ \E answer \in KeyTermAnswers(wide) :
         /\ searchTerms' = [searchTerms EXCEPT ![r] =
                               IF answer.kind = "terms" THEN answer.terms ELSE <<"">>]
         /\ allResults' = [allResults EXCEPT ![r] = <<>>]
         /\ pc' = [pc EXCEPT ![r] = "uspto"]
         /\ log' = [log EXCEPT ![r].contacted = @ \cup {"extractor"},
                               ![r].cause = IF answer.kind = "terms" THEN "none"
                                            ELSE "extract"]
         /\ UNCHANGED error
    /\ UNCHANGED <<aside, store, scanId, supabase, queries, resultsToInsert, response>>

ExtractKeyTerms(r, wide) ==
    /\ pc[r] = "extract"
    /\ \E answer \in KeyTermAnswers(wide) :
         IF answer.kind = "terms"
         THEN /\ searchTerms' = [searchTerms EXCEPT ![r] = answer.terms]
              /\ allResults' = [allResults EXCEPT ![r] = <<>>]
              /\ pc' = [pc EXCEPT ![r] = "uspto"]
              /\ log' = [log EXCEPT ![r].contacted = @ \cup {"extractor"}]
              /\ UNCHANGED error
         ELSE /\ pc' = [pc EXCEPT ![r] = "catch"]
              /\ error' = [error EXCEPT ![r] = "extraction failed"]
              /\ log' = [log EXCEPT ![r].contacted = @ \cup {"extractor"},
                                    ![r].cause = "extract"]
              /\ UNCHANGED <<searchTerms, allResults>>
    /\ UNCHANGED <<aside, store, scanId, supabase, queries, resultsToInsert, response>>

\* the registry answer: a thrown fetch, a non-success response, a body
\* without response.docs, or the documents
UsptoAnswers(wide) ==
    {[kind |-> k, docs |-> <<>>] : k \in {"throw", "not_ok", "no_docs"}}
    \cup {[kind |-> "docs", docs |-> d] : d \in SeqsUpTo(DocKinds(wide), MaxDocs)}

\* usptoData.response.docs.slice(0, 5), each pushed as a candidate
PatentCandidates(docs) ==
    [i \in 1..Min(Len(docs), RegistryCap) |-> PatentCandidate(docs[i])]

UsptoSearchUnguarded(r, wide) ==
    /\ pc[r] = "uspto"
    /\ \E answer \in UsptoAnswers(wide) :
         IF answer.kind = "throw"
         THEN /\ pc' = [pc EXCEPT ![r] = "catch"]
              /\ error' = [error EXCEPT ![r] = "fetch failed"]
              /\ log' = [log EXCEPT ![r].contacted = @ \cup {"uspto"},
                                    ![r].source["uspto"] = "failed",
                                    ![r].cause = "uspto"]
              /\ UNCHANGED allResults
         ELSE /\ allResults' = [allResults EXCEPT ![r] = @ \o PatentCandidates(answer.docs)]
              /\ pc' = [pc EXCEPT ![r] = "aiQuery"]
              /\ log' = [log EXCEPT ![r].contacted = @ \cup {"uspto"},
                                    ![r].source["uspto"] =
                                        IF answer.kind = "not_ok" THEN "failed" ELSE "ok",
                                    ![r].hits["uspto"] = answer.docs]
              /\ UNCHANGED error
    /\ UNCHANGED <<aside, store, scanId, supabase, searchTerms, queries, resultsToInsert, response>>

UsptoSearchNotAwaited(r, wide) ==
    /\ pc[r] = "uspto"
    /\ \E answer \in UsptoAnswers(wide) :
         log' = [log EXCEPT ![r].contacted = @ \cup {"uspto"}]
    /\ pc' = [pc EXCEPT ![r] = "aiQuery"]
    /\ UNCHANGED <<aside, store, scanId, supabase, aggregation, resultsToInsert,
                   error, response>>

\* the registry answers, with one of the given answers
UsptoSearchOn(r, answers) ==
    /\ pc[r] = "uspto"
    /\ \E answer \in answers :
         /\ allResults' = [allResults EXCEPT ![r] = @ \o PatentCandidates(answer.docs)]
         /\ log' = [log EXCEPT ![r].contacted = @ \cup {"uspto"},
                               ![r].source["uspto"] =
                                   IF answer.kind \in {"throw", "not_ok"} THEN "failed"
                                   ELSE "ok",
                               ![r].hits["uspto"] = answer.docs]
    /\ pc' = [pc EXCEPT ![r] = "aiQuery"]
    /\ UNCHANGED <<aside, store, scanId, supabase, searchTerms, queries, resultsToInsert,
                   error, response>>

UsptoSearch(r, wide) == UsptoSearchOn(r, UsptoAnswers(wide))

\* answers whose array is empty, short, at the registry's cap, just over it,
\* and over twice the cap
ArrayLens == {0, 1, RegistryCap, RegistryCap + 1, 2 * RegistryCap + 1}
LongUsptoAnswers ==
    {[kind |-> "docs", docs |-> [i \in 1..n |-> Doc(<<"a">>, <<"x">>, <<"123">>)]] :
        n \in ArrayLens}
UsptoSearchLong(r) == UsptoSearchOn(r, LongUsptoAnswers)

\* scoring, filtering and sorting run without yielding once the last source
\* has answered; an empty batch skips the insert
ScoreAndSortNoInsert(r, results, wide) ==
    \E rnd \in [1..Len(results) -> RandVals(wide)] :
        /\ resultsToInsert' = [resultsToInsert EXCEPT ![r] =
               SortByScore(ScoredRows(scanId[r], results, InputTerms(searchTerms[r]), rnd, 1))]
        /\ pc' = [pc EXCEPT ![r] = "status"]

ScoreAndSort(r, results, wide) ==
    \E rnd \in [1..Len(results) -> RandVals(wide)] :
        LET rows == SortByScore(ScoredRows(scanId[r], results,
                                           InputTerms(searchTerms[r]), rnd, 1))
        IN  /\ resultsToInsert' = [resultsToInsert EXCEPT ![r] = rows]
            /\ pc' = [pc EXCEPT ![r] = IF Len(rows) > 0 THEN "insert" ELSE "status"]

\* the query-generation request; a failure of it ends the AI discovery
AiQueryAnswers == {[kind |-> k, n |-> 0] : k \in {"throw", "not_ok", "malformed"}}
                  \cup {[kind |-> "queries", n |-> n] : n \in 1..MaxQueries}

AiQuery(r, wide) ==
    /\ pc[r] = "aiQuery"
    /\ \E answer \in AiQueryAnswers :
         /\ log' = [log EXCEPT ![r].contacted = @ \cup {"ai"}]
         /\ IF answer.kind = "queries"
            THEN /\ queries' = [queries EXCEPT ![r] = Min(answer.n, QueryCap)]
                 /\ pc' = [pc EXCEPT ![r] = "aiExtract"]
                 /\ UNCHANGED resultsToInsert
            ELSE /\ ScoreAndSort(r, allResults[r], wide)
                 /\ UNCHANGED queries
    /\ UNCHANGED <<aside, store, scanId, supabase, searchTerms, allResults, error, response>>

\* one extraction request of the loop over queries.slice(0, 2)
AiExtractAnswers(wide) ==
    {[kind |-> k, companies |-> <<>>] :
        k \in {"throw", "not_ok", "malformed", "no_array", "parse_error"}}
    \cup {[kind |-> "companies", companies |-> c] :
            c \in SeqsUpTo(CompanyKinds(wide), MaxCompanies)}

\* for (const company of companies) if (url ok) allResults.push(...); the
\* loop stands inside the try around JSON.parse, so a TypeError raised by the
\* guard ends it, with the candidates pushed so far kept
RECURSIVE CompanyCandidates(_, _)
CompanyCandidates(companies, q) ==
    IF companies = <<>> THEN <<>>
    ELSE IF UrlCheckThrows(Head(companies)) THEN <<>>
    ELSE (IF CompanyUrlOk(Head(companies))
          THEN <<CompanyCandidate(Head(companies), q)>> ELSE <<>>)
         \o CompanyCandidates(Tail(companies), q)

QueryOrigin(r) == IF log[r].source["q1"] = "none" THEN "q1" ELSE "q2"

AiExtractFirstOnly(r, wide) ==
    /\ pc[r] = "aiExtract"
    /\ \E answer \in AiExtractAnswers(wide) :
         LET q       == QueryOrigin(r)
             results == allResults[r] \o CompanyCandidates(answer.companies, q)
         IN  /\ allResults' = [allResults EXCEPT ![r] = results]
             /\ queries' = [queries EXCEPT ![r] = @ - 1]
             /\ log' = [log EXCEPT ![r].source[q] =
                                       IF answer.kind = "companies" THEN "ok" ELSE "failed",
                                   ![r].hits[q] = answer.companies]
             /\ ScoreAndSort(r, results, wide)
    /\ UNCHANGED <<aside, store, scanId, supabase, searchTerms, error, response>>

\* one AI extraction answers, with one of the given answers
AiExtractOn(r, answers, wide) ==
    /\ pc[r] = "aiExtract"
    /\ \E answer \in answers :
         LET q       == QueryOrigin(r)
             results == allResults[r] \o CompanyCandidates(answer.companies, q)
         IN  /\ allResults' = [allResults EXCEPT ![r] = results]
             /\ queries' = [queries EXCEPT ![r] = @ - 1]
             /\ log' = [log EXCEPT ![r].source[q] =
                                       IF answer.kind = "companies" THEN "ok" ELSE "failed",
                                   ![r].hits[q] = answer.companies]
             /\ IF queries[r] > 1
                THEN UNCHANGED <<pc, resultsToInsert>>
                ELSE ScoreAndSort(r, results, wide)
    /\ UNCHANGED <<aside, store, scanId, supabase, searchTerms, error, response>>

AiExtract(r, wide) == AiExtractOn(r, AiExtractAnswers(wide), wide)

\* answers whose items may lack a title: JSON.parse accepts any object
UntitledAnswers ==
    {[kind |-> "companies", companies |-> c] :
        c \in SeqsUpTo({Company(NULL, <<"b">>, HttpsUrl),
                        Company(<<"a">>, <<"x">>, HttpsUrl)}, MaxCompanies)}
AiExtractUntitled(r) == AiExtractOn(r, UntitledAnswers, FALSE)

\* answers whose array is as long as the model likes: the loop has no slice
LongAiExtractAnswers ==
    {[kind |-> "companies",
      companies |-> [i \in 1..n |-> Company(<<"a">>, <<"x">>, HttpsUrl)]] :
        n \in ArrayLens}
AiExtractLong(r) == AiExtractOn(r, LongAiExtractAnswers, FALSE)

\* answers whose items have a valid URL, no URL, or a URL that is no string,
\* at every position of the array
MixedAiExtractAnswers ==
    {[kind |-> k, companies |-> <<>>] :
        k \in {"throw", "not_ok", "malformed", "no_array", "parse_error"}}
    \cup {[kind |-> "companies", companies |-> c] :
            c \in SeqsUpTo({Company(<<"a">>, <<"x">>, HttpsUrl),
                            Company(<<"x">>, <<"x">>, NULL),
                            Company(<<"x">>, <<"x">>, NumberValue)}, MaxProbe)}
AiExtractMixed(r) == AiExtractOn(r, MixedAiExtractAnswers, FALSE)

\* the constraints of the scan_results table on one row
RowAccepted(row) ==
    /\ row.scan_id \in DOMAIN scans
    /\ row.title # NULL
    /\ row.similarity_score >= CheckMin * 100
    /\ row.similarity_score <= CheckMax * 100
    /\ row.source_type \in SourceTypes

\* a stored row remembers the invocation that inserted it
Stored(row, r) ==
    [f \in DOMAIN row \cup {"run"} |-> IF f = "run" THEN r ELSE row[f]]

\* insert(resultsToInsert): one statement, so every row is stored or none is;
\* an error value is thrown to the catch block
InsertResultsRowwise(r) ==
    /\ pc[r] = "insert"
    /\ \E n \in 0..Len(resultsToInsert[r]) :
         /\ \A i \in 1..n : RowAccepted(resultsToInsert[r][i])
         /\ scan_results' = scan_results \o
                [i \in 1..n |-> Stored(resultsToInsert[r][i], r)]
         /\ IF n = Len(resultsToInsert[r])
            THEN /\ pc' = [pc EXCEPT ![r] = "status"]
                 /\ UNCHANGED <<error, log>>
            ELSE Throw(r, "Unknown error occurred", "insert")
    /\ UNCHANGED <<aside, scans, scanId, supabase, aggregation, resultsToInsert, response>>

InsertResults(r) ==
    /\ pc[r] = "insert"
    /\ \E storeOk \in BOOLEAN :
         IF storeOk /\ \A i \in 1..Len(resultsToInsert[r]) : RowAccepted(resultsToInsert[r][i])
         THEN /\ scan_results' = scan_results \o
                     [i \in 1..Len(resultsToInsert[r]) |-> Stored(resultsToInsert[r][i], r)]
              /\ pc' = [pc EXCEPT ![r] = "status"]
              /\ UNCHANGED <<error, log>>
         ELSE /\ \E msg \in {"Unknown error occurred", "insert failed"} :
                     Throw(r, msg, "insert")
              /\ UNCHANGED scan_results
    /\ UNCHANGED <<aside, scans, scanId, supabase, aggregation, resultsToInsert, response>>

WithStatusUnfiltered(id, status) ==
    [s \in DOMAIN scans |-> [scans[s] EXCEPT !.status = status]]

\* update({status}).eq('id', id): the rows with that id get the status
WithStatus(id, status) ==
    [s \in DOMAIN scans |-> IF s = id THEN [scans[s] EXCEPT !.status = status]
                            ELSE scans[s]]

\* whether that update gives some row a status it did not have
Changes(id, status) == id \in DOMAIN scans /\ scans[id].status # status

UpdateCompletedCountsAll(r) ==
    /\ pc[r] = "status"
    /\ \E storeOk \in BOOLEAN :
         /\ scans' = IF storeOk THEN WithStatus(scanId[r], "completed") ELSE scans
         /\ log' = [log EXCEPT ![r].wrote = IF storeOk THEN "completed"
                                            ELSE "completed_rejected",
                               ![r].changed = storeOk /\ Changes(scanId[r], "completed")]
    /\ response' = [response EXCEPT ![r] = Success(Len(allResults[r]))]
    /\ pc' = [pc EXCEPT ![r] = "done"]
    /\ UNCHANGED <<aside, scan_results, scanId, supabase, aggregation, resultsToInsert, error>>

UpdateCompletedThrowing(r) ==
    /\ pc[r] = "status"
    /\ \E storeOk \in BOOLEAN :
         IF storeOk
         THEN /\ scans' = WithStatus(scanId[r], "completed")
              /\ log' = [log EXCEPT ![r].wrote = "completed",
                                    ![r].changed = Changes(scanId[r], "completed")]
              /\ response' = [response EXCEPT ![r] = Success(Len(resultsToInsert[r]))]
              /\ pc' = [pc EXCEPT ![r] = "done"]
              /\ UNCHANGED error
         ELSE /\ Throw(r, "update failed", "status")
              /\ UNCHANGED <<scans, response>>
    /\ UNCHANGED <<aside, scan_results, scanId, supabase, aggregation, resultsToInsert>>

\* the status update after the insert; its result is not inspected, and the
\* success report follows
UpdateCompleted(r) ==
    /\ pc[r] = "status"
    /\ \E storeOk \in BOOLEAN :
         /\ scans' = IF storeOk THEN WithStatus(scanId[r], "completed") ELSE scans
         /\ log' = [log EXCEPT ![r].wrote = IF storeOk THEN "completed"
                                            ELSE "completed_rejected",
                               ![r].changed = storeOk /\ Changes(scanId[r], "completed")]
    /\ response' = [response EXCEPT ![r] = Success(Len(resultsToInsert[r]))]
    /\ pc' = [pc EXCEPT ![r] = "done"]
    /\ UNCHANGED <<aside, scan_results, scanId, supabase, aggregation, resultsToInsert, error>>

CatchFailedReraise(r) ==
    /\ pc[r] = "catch"
    /\ IF supabase[r]
       THEN \E storeOk \in BOOLEAN :
              /\ scans' = IF storeOk THEN WithStatus(scanId[r], "failed") ELSE scans
              /\ log' = [log EXCEPT ![r].wrote = IF storeOk THEN "failed"
                                                 ELSE "failed_rejected",
                                    ![r].changed = storeOk /\ Changes(scanId[r], "failed")]
              /\ response' = [response EXCEPT ![r] =
                                 IF storeOk THEN Failure(error[r])
                                 ELSE Failure("Failed to update scan status")]
       ELSE /\ log' = [log EXCEPT ![r].wrote = "no_client"]
            /\ response' = [response EXCEPT ![r] = Failure("Failed to update scan status")]
            /\ UNCHANGED scans
    /\ pc' = [pc EXCEPT ![r] = "done"]
    /\ UNCHANGED <<aside, scan_results, scanId, supabase, aggregation, resultsToInsert, error>>

\* the catch block: a best-effort write of status failed (a TypeError when
\* no client was created), then the error response
CatchFailed(r) ==
    /\ pc[r] = "catch"
    /\ IF supabase[r]
       THEN \E storeOk \in BOOLEAN :
              /\ scans' = IF storeOk THEN WithStatus(scanId[r], "failed") ELSE scans
              /\ log' = [log EXCEPT ![r].wrote = IF storeOk THEN "failed"
                                                 ELSE "failed_rejected",
                                    ![r].changed = storeOk /\ Changes(scanId[r], "failed")]
       ELSE /\ log' = [log EXCEPT ![r].wrote = "no_client"]
            /\ UNCHANGED scans
    /\ response' = [response EXCEPT ![r] = Failure(error[r])]
    /\ pc' = [pc EXCEPT ![r] = "done"]
    /\ UNCHANGED <<aside, scan_results, scanId, supabase, aggregation, resultsToInsert, error>>

\* ------------------------------------------ scans created and deleted
\* String.prototype.trim on a text whose blanks are the tokens " "
RECURSIVE TrimStart(_)
TrimStart(s) == IF s # <<>> /\ Head(s) = " " THEN TrimStart(Tail(s)) ELSE s
RECURSIVE TrimEnd(_)
TrimEnd(s) ==
    IF s # <<>> /\ s[Len(s)] = " " THEN TrimEnd(SubSeq(s, 1, Len(s) - 1)) ELSE s
Trim(s) == TrimEnd(TrimStart(s))

\* what a visitor may type, or send
FormTexts == {<<"idea">>, <<" ", "idea">>, <<" ">>, <<>>}
\* the ids gen_random_uuid() has yet to give out
NewScanIds == {"s3"}

\* insert into scans: the row gets a fresh id and the defaults
WithScan(id, text_input, user) ==
    [s \in DOMAIN scans \cup {id} |->
        IF s = id
        THEN [status |-> "processing", text_input |-> text_input, user_id |-> user,
              image_url |-> NULL, text_embedding |-> NULL, created_at |-> clock.now]
        ELSE scans[s]]

\* an insert into scans sent to the store under the policy "Users can create
\* scans": the table asks for a text that is not null, and for nothing more
InsertScan(text_input, user) ==
    /\ \E id \in NewScanIds \ issued :
         /\ scans' = WithScan(id, text_input, user)
         /\ issued' = issued \cup {id}
    /\ UNCHANGED <<scan_results, pc, scanId, supabase, aggregation, resultsToInsert,
                   error, response, log, probe, others, scan_unlocks, clock, vp, vec>>

\* ScanForm.handleScan: a text that trims to nothing is refused with a
\* toast; otherwise the text typed is inserted as it is
HandleScan(text_input, user) ==
    /\ Trim(text_input) # <<>>
    /\ InsertScan(text_input, user)

\* ScanForm.handleScan as the form runs it: the scan is inserted and, when
\* the store accepts it, the view is told and process-scan is invoked
\* without waiting; a refused insert ends in a toast
FormSubmit(text_input, user) ==
    /\ form.pc = "idle"
    /\ Trim(text_input) # <<>>
    /\ \E storeOk \in BOOLEAN :
         IF storeOk
         THEN \E id \in NewScanIds \ issued :
                 /\ scans' = WithScan(id, text_input, user)
                 /\ issued' = issued \cup {id}
                 /\ form' = [pc |-> "invoke", scanId |-> id]
         ELSE /\ form' = [pc |-> "done", scanId |-> NoId]
              /\ UNCHANGED <<scans, issued>>
    /\ UNCHANGED <<scan_results, pc, scanId, supabase, aggregation, resultsToInsert,
                   error, response, log, probe, scan_unlocks, clock, vp, vec, mkt,
                   view, grants>>

\* supabase.functions.invoke(...).catch(log): the request does not reach
\* the function; the error is logged and nothing else happens
InvokeFails ==
    /\ form.pc = "invoke"
    /\ pc[1] = "idle"
    /\ form' = [form EXCEPT !.pc = "done"]
    /\ UNCHANGED <<handler, probe, payments, vec, mkt, view, grants>>

\* the request reaches the function
InvokeStarts ==
    /\ form.pc = "invoke"
    /\ Invoke(1, form.scanId)

\* ---------------------------------------------------- the ScanResults view
\* the stored rows of a scan, in storage order
RowsOf(id) == SelectSeq(scan_results, LAMBDA row : row.scan_id = id)

\* the view is what leaves the React state unchanged
ViewFrame == UNCHANGED <<handler, probe, payments, vec, mkt, form, grants>>

\* useEffect on mount: fetchResults and checkScanStatus are sent, the 30 s
\* timer is armed, the channel is subscribed from the rows and the status
\* stored at that moment
ViewMount(id) ==
    /\ view.pc = "idle"
    /\ id \in DOMAIN scans
    /\ view' = [view EXCEPT !.pc = "mounted", !.scanId = id, !.fetch = "sent",
                            !.check = [pc |-> "sent", status |-> ""],
                            !.timer = "armed",
                            !.base = Len(RowsOf(id)),
                            !.notified = scans[id].status]
    /\ ViewFrame

\* fetchResults, the query: the scan's rows by descending score, or an error
FetchRead ==
    /\ view.fetch = "sent"
    /\ \E storeOk \in BOOLEAN :
         view' = IF storeOk
                 THEN [view EXCEPT !.fetch = "read",
                                   !.fetched = SortByScore(RowsOf(view.scanId))]
                 ELSE [view EXCEPT !.fetch = "error"]
    /\ ViewFrame

\* fetchResults, after the await: setResults(typedResults), the spinner
\* released when there are rows; the catch block releases it too
FetchReturn ==
    /\ view.fetch \in {"read", "error"}
    /\ view' = IF view.fetch = "read"
               THEN [view EXCEPT !.fetch = "done",
                                 !.results = view.fetched,
                                 !.isLoading = IF Len(view.fetched) > 0 THEN FALSE
                                               ELSE view.isLoading]
               ELSE [view EXCEPT !.fetch = "failed", !.isLoading = FALSE]
    /\ ViewFrame

\* checkScanStatus, the query: the stored status, or an error
CheckRead(which) ==
    /\ view[which].pc = "sent"
    /\ \E storeOk \in BOOLEAN :
         view' = IF storeOk /\ view.scanId \in DOMAIN scans
                 THEN [view EXCEPT ![which] = [pc |-> "read",
                                               status |-> scans[view.scanId].status]]
                 ELSE [view EXCEPT ![which] = [pc |-> "error", status |-> ""]]
    /\ ViewFrame

\* checkScanStatus, after the await: setScanStatus, the spinner released on
\* completed or failed; an error is logged
CheckReturn(which) ==
    /\ view[which].pc \in {"read", "error"}
    /\ view' = IF view[which].pc = "read"
               THEN [view EXCEPT ![which].pc = "done",
                                 !.scanStatus = view[which].status,
                                 !.isLoading =
                                     IF view[which].status \in {"completed", "failed"}
                                     THEN FALSE ELSE view.isLoading]
               ELSE [view EXCEPT ![which].pc = "failed"]
    /\ ViewFrame

\* setTimeout(() => checkScanStatus(), 30000): one re-check
TimerFires ==
    /\ view.timer = "armed"
    /\ view' = [view EXCEPT !.timer = "fired",
                            !.recheck = [pc |-> "sent", status |-> ""]]
    /\ ViewFrame

\* the realtime INSERT handler, for the next row stored since the
\* subscription: appended, then the list sorted by descending score
RealtimeInsert ==
    /\ view.pc = "mounted"
    /\ view.base + view.delivered < Len(RowsOf(view.scanId))
    /\ LET row == RowsOf(view.scanId)[view.base + view.delivered + 1]
       IN  view' = [view EXCEPT !.delivered = view.delivered + 1,
                                !.results = SortByScore(Append(view.results, row))]
    /\ ViewFrame

\* the realtime UPDATE handler: setScanStatus, the spinner released on
\* completed only
RealtimeUpdate ==
    /\ view.pc = "mounted"
    /\ view.scanId \in DOMAIN scans
    /\ scans[view.scanId].status # view.notified
    /\ LET status == scans[view.scanId].status
       IN  view' = [view EXCEPT !.notified = status,
                                !.scanStatus = status,
                                !.isLoading = IF status = "completed" THEN FALSE
                                              ELSE view.isLoading]
    /\ ViewFrame

\* the render branches: the spinner, the failure message
ShowsSpinner == view.isLoading \/ view.scanStatus = "processing"
ShowsFailure == ~ShowsSpinner /\ view.scanStatus = "failed"

\* a scan row is deleted (with its owner, whose deletion cascades to scans):
\* ON DELETE CASCADE removes its scan_results and scan_unlocks rows
DeleteScanNoCascade(id) ==
    /\ id \in DOMAIN scans
    /\ scans' = [s \in DOMAIN scans \ {id} |-> scans[s]]
    /\ scan_results' = SelectSeq(scan_results, LAMBDA row : row.scan_id # id)
    /\ UNCHANGED <<pc, scanId, supabase, aggregation, resultsToInsert,
                   error, response, log, probe, others, scan_unlocks, clock, issued, vp, vec>>

DeleteScan(id) ==
    /\ id \in DOMAIN scans
    /\ scans' = [s \in DOMAIN scans \ {id} |-> scans[s]]
    /\ scan_results' = SelectSeq(scan_results, LAMBDA row : row.scan_id # id)
    /\ scan_unlocks' = SelectSeq(scan_unlocks, LAMBDA row : row.scan_id # id)
    /\ UNCHANGED <<pc, scanId, supabase, aggregation, resultsToInsert,
                   error, response, log, probe, others, clock, issued, vp, vec>>

\* -------------------------------------------------------- verify-payment
Users == {"u1", "u2"}
VpReferences == {"ref1", NoId}
VpScanIds == {"s1", "ghost", NoId}

\* initiate-payment: the reference of a transaction names the user who
\* started it, sub_<user id>_<time>
PayerOf(reference) == IF reference = "ref1" THEN "u1" ELSE NoId

\* the error response of the catch block
VpFailure(msg) ==
    [vp EXCEPT !.pc = "done", !.status = 400, !.success = FALSE, !.message = msg]

\* the request arrives; without an Authorization header it is refused
VpInvoke(auth, reference, id) ==
    /\ vp.pc \in {"idle", "done"}
    /\ LET request == [NoVp EXCEPT !.auth = auth, !.reference = reference, !.scanId = id]
       IN  vp' = IF auth THEN [request EXCEPT !.pc = "getUser"]
                 ELSE [request EXCEPT !.pc = "done", !.status = 400,
                                      !.message = "No authorization header"]
    /\ UNCHANGED <<handler, probe, others, vec, scan_unlocks, clock, issued>>

\* auth.getUser answers; then the body is read and checked, and the
\* verification request is sent
VpGetUser ==
    /\ vp.pc = "getUser"
    /\ \E user \in Users \cup {NoId} :
         vp' = IF user = NoId THEN VpFailure("Unauthorized")
               ELSE IF vp.reference = NoId
                    THEN VpFailure("Payment reference is required")
               ELSE IF vp.scanId = NoId THEN VpFailure("Scan ID is required")
               ELSE [vp EXCEPT !.pc = "verify", !.user = user]
    /\ UNCHANGED <<handler, probe, others, vec, scan_unlocks, clock, issued>>

\* the gateway answers: a thrown fetch or unreadable body, a non-success
\* response, a body with status false, a transaction that is abandoned or
\* failed, or a transaction that is successful
GatewayAnswers == {"throw", "not_ok", "status_false", "abandoned", "failed", "success"}

VpVerifyUnchecked ==
    /\ vp.pc = "verify"
    /\ \E answer \in GatewayAnswers :
         vp' = IF answer = "throw" THEN VpFailure("fetch failed")
               ELSE IF answer = "not_ok" THEN VpFailure("Failed to verify transaction")
               ELSE [vp EXCEPT !.pc = "upsert", !.gateway = answer,
                               !.expiresAt = clock.now + UnlockHours]
    /\ UNCHANGED <<handler, probe, others, vec, scan_unlocks, clock, issued>>

VpVerify ==
    /\ vp.pc = "verify"
    /\ \E answer \in GatewayAnswers :
         vp' = IF answer = "throw" THEN VpFailure("fetch failed")
               ELSE IF answer = "not_ok" THEN VpFailure("Failed to verify transaction")
               ELSE IF answer = "success"
                    THEN [vp EXCEPT !.pc = "upsert", !.gateway = answer,
                                    !.expiresAt = clock.now + UnlockHours]
               ELSE [vp EXCEPT !.pc = "done", !.gateway = answer, !.status = 200,
                               !.success = FALSE, !.message = "Payment not successful"]
    /\ UNCHANGED <<handler, probe, others, vec, scan_unlocks, clock, issued>>

\* upsert({user_id, scan_id, expires_at}, {onConflict: 'user_id,scan_id'}):
\* the row of that user and scan gets the expiry, or a new row is added;
\* granted_at remembers when the row was last written
UpsertAsInsert(rows, user, scan, expires, now) ==
    Append(rows, [user_id |-> user, scan_id |-> scan, unlocked_at |-> now,
                  expires_at |-> expires, granted_at |-> now])

Upsert(rows, user, scan, expires, now) ==
    IF \E i \in 1..Len(rows) : rows[i].user_id = user /\ rows[i].scan_id = scan
    THEN [i \in 1..Len(rows) |->
            IF rows[i].user_id = user /\ rows[i].scan_id = scan
            THEN [rows[i] EXCEPT !.expires_at = expires, !.granted_at = now]
            ELSE rows[i]]
    ELSE Append(rows, [user_id |-> user, scan_id |-> scan, unlocked_at |-> now,
                       expires_at |-> expires, granted_at |-> now])

\* the upsert answers: refused for a scan that does not exist (foreign key)
\* or by the store; then the response
VpUpsert ==
    /\ vp.pc = "upsert"
    /\ \E storeOk \in BOOLEAN :
         IF storeOk /\ vp.scanId \in DOMAIN scans
         THEN /\ scan_unlocks' = Upsert(scan_unlocks, vp.user, vp.scanId,
                                        vp.expiresAt, clock.now)
              /\ vp' = [vp EXCEPT !.pc = "done", !.status = 200, !.success = TRUE,
                                  !.message = "Scan unlocked successfully"]
              /\ grants' = grants \cup {[reference |-> vp.reference,
                                          user_id |-> vp.user, scan_id |-> vp.scanId]}
         ELSE /\ vp' = VpFailure("Failed to unlock scan")
              /\ UNCHANGED <<scan_unlocks, grants>>
    /\ UNCHANGED <<handler, probe, mkt, form, view, vec, clock, issued>>

\* time passes, by an hour or by an hour less than the unlock lasts; an
\* invocation of verify-payment takes less than an hour
Tick ==
    /\ vp.pc \in {"idle", "done"}
    /\ clock.ticks < MaxTicks
    /\ \E d \in {1, UnlockHours - 1} :
         clock' = [now |-> clock.now + d, ticks |-> clock.ticks + 1]
    /\ UNCHANGED <<handler, probe, others, vec, scan_unlocks, issued, vp>>

\* is_scan_unlocked(check_user_id, check_scan_id), and the query of
\* checkScanUnlock: a row of that user and scan with expires_at > now
IsScanUnlocked(user, scan) ==
    \E i \in 1..Len(scan_unlocks) :
        /\ scan_unlocks[i].user_id = user
        /\ scan_unlocks[i].scan_id = scan
        /\ scan_unlocks[i].expires_at > clock.now

\* ------------------------------------- process-scan, the vector variant
\* the run number its stored rows carry
VecRun == 0

\* embeddings, short and of whole length so that the square roots are exact
Embeddings == {<<1, 0>>, <<3, 4>>, <<-1, 0>>}

\* an embeddings request: rejected, answered with a non-success status, with
\* a body that has no data[0], or with an embedding
EmbeddingAnswers ==
    {[kind |-> k, embedding |-> <<>>] : k \in {"throw", "not_ok", "malformed"}}
    \cup {[kind |-> "ok", embedding |-> e] : e \in Embeddings}

\* Math.sqrt on a perfect square
Sqrt(n) == CHOOSE k \in 0..n : k * k <= n /\ (k + 1) * (k + 1) > n

\* the sum over i < embedding.length of a[i] * b[i]
RECURSIVE DotUpTo(_, _, _)
DotUpTo(a, b, k) == IF k = 0 THEN 0 ELSE a[k] * b[k] + DotUpTo(a, b, k - 1)

\* Math.round(Math.max(0, Math.min(100, similarity * 100)) * 100), the
\* score in hundredths, with similarity the cosine of the two embeddings
CosineScore(embedding, resultEmbedding) ==
    LET n          == Len(embedding)
        dotProduct == DotUpTo(embedding, resultEmbedding, n)
        normA      == DotUpTo(embedding, embedding, n)
        normB      == DotUpTo(resultEmbedding, resultEmbedding, n)
        den        == Sqrt(normA) * Sqrt(normB)
    IN  IF dotProduct <= 0 THEN 0
        ELSE Min(100 * 100, (2 * dotProduct * 100 * 100 + den) \div (2 * den))

\* a field of a parsed object, missing when the object does not have it
Field(object, f) == IF f \in DOMAIN object THEN object[f] ELSE NULL
\* a || b on text values
Or(a, b) == IF Falsy(a) THEN b ELSE a

\* one registry document -> candidate
VecPatentCandidate(patent) ==
    [ title        |-> Or(Field(patent, "inventionTitle"),
                          Or(Field(patent, "title"), <<"Untitled Patent">>)),
      owner        |-> Or(Field(patent, "assigneeEntityName"), <<"Unknown">>),
      country      |-> <<"United States">>,
      source_type  |-> "patent",
      legal_status |-> Or(Field(patent, "patentStatus"), <<"Granted">>),
      snippet      |-> IF ~Falsy(Field(patent, "inventionSummaryText"))
                       THEN Substring(Field(patent, "inventionSummaryText"), PreviewLen)
                       ELSE IF ~Falsy(Field(patent, "abstractText"))
                            THEN Substring(Field(patent, "abstractText"), PreviewLen)
                            ELSE <<>>,
      url          |-> IF Falsy(Field(patent, "patentNumber")) THEN NULL
                       ELSE PatentUrl(Field(patent, "patentNumber")) ]
\* usptoData.response.docs.slice(0, 5), each pushed as a candidate
VecPatentCandidates(docs) ==
    [i \in 1..Min(Len(docs), RegistryCap) |-> VecPatentCandidate(docs[i])]

\* one AI-generated patent -> candidate
AiPatent(title, number) ==
    [title |-> title, owner |-> <<"o">>, country |-> <<"EP">>, status |-> <<"Granted">>,
     snippet |-> <<"x">>, number |-> number]
AiPatentCandidate(patent) ==
    [ title        |-> patent.title,
      owner        |-> patent.owner,
      country      |-> patent.country,
      source_type  |-> "patent",
      legal_status |-> patent.status,
      snippet      |-> patent.snippet,
      url          |-> IF Falsy(patent.number) THEN NULL
                       ELSE <<"https://", "patents.google.com/patent/">> \o patent.number ]

\* one AI-found startup -> candidate
Startup(name, website) ==
    [name |-> name, country |-> <<"US">>, description |-> <<"x">>, website |-> website]
StartupCandidate(startup) ==
    [ title        |-> startup.name,
      owner        |-> startup.name,
      country      |-> startup.country,
      source_type  |-> "startup",
      legal_status |-> NULL,
      snippet      |-> startup.description,
      url          |-> startup.website ]

\* what the two AI searches answer: a failure, or a parsed array
AiFailures == {"throw", "not_ok", "malformed", "no_array", "parse_error"}
AiPatentAnswers ==
    {[kind |-> k, items |-> <<>>] : k \in AiFailures}
    \cup {[kind |-> "items", items |-> c] :
            c \in SeqsUpTo({AiPatent(<<"a">>, <<"EP1">>), AiPatent(<<"b">>, NULL)},
                           MaxCompanies)}
StartupAnswers ==
    {[kind |-> k, items |-> <<>>] : k \in AiFailures}
    \cup {[kind |-> "items", items |-> c] :
            c \in SeqsUpTo({Startup(<<"c">>, HttpsUrl)}, MaxCompanies)}

\* the row pushed for a result whose embedding was obtained
VecToRow(id, result, score) ==
    [ scan_id          |-> id,
      title            |-> result.title,
      owner            |-> result.owner,
      country          |-> result.country,
      similarity_score |-> score,
      source_type      |-> result.source_type,
      legal_status     |-> result.legal_status,
      snippet          |-> IF result.snippet = NULL THEN NULL
                           ELSE Substring(result.snippet, SnippetLen),
      url              |-> result.url ]

\* the success report, with the number of candidates of each kind
VecSuccess(n, results) ==
    [status |-> 200, success |-> TRUE, resultsCount |-> n, error |-> "",
     sources |->
        [uspto |-> Len(SelectSeq(results, LAMBDA c :
                         c.source_type = "patent" /\ c.country = <<"United States">>)),
         international |-> Len(SelectSeq(results, LAMBDA c :
                         c.source_type = "patent" /\ c.country # <<"United States">>)),
         startups |-> Len(SelectSeq(results, LAMBDA c : c.source_type = "startup"))]]

\* the catch block: it logs the error and answers 500 with its message; it
\* writes nothing
VecCaught(v, msg, cause) ==
    [v EXCEPT !.pc = "done", !.cause = cause, !.response = Failure(msg)]

\* update({ text_embedding }).eq('id', id)
WithEmbedding(id, embedding) ==
    [s \in DOMAIN scans |-> IF s = id THEN [scans[s] EXCEPT !.text_embedding = embedding]
                            ELSE scans[s]]

\* the request arrives and its body is parsed
VecInvoke(id) ==
    /\ vec.pc = "idle"
    /\ vec' = IF id = NoId
              THEN VecCaught([vec EXCEPT !.scanId = id], "Scan ID is required", "scanId")
              ELSE [vec EXCEPT !.scanId = id, !.pc = "fetchScan"]
    /\ UNCHANGED <<handler, probe, others, payments>>

\* the scan lookup answers; found, the embedding of its text is requested
VecFetchScan ==
    /\ vec.pc = "fetchScan"
    /\ \E storeOk \in BOOLEAN :
         vec' = IF storeOk /\ vec.scanId \in DOMAIN scans
                THEN [vec EXCEPT !.pc = "embed"]
                ELSE VecCaught(vec, "Scan not found", "scan")
    /\ UNCHANGED <<handler, probe, others, payments>>

\* the embeddings request for the scan's text answers
VecEmbed ==
    /\ vec.pc = "embed"
    /\ \E answer \in EmbeddingAnswers :
         vec' = IF answer.kind = "throw" THEN VecCaught(vec, "fetch failed", "embed")
                ELSE IF answer.kind = "not_ok"
                     THEN VecCaught(vec, "Failed to generate embedding", "embed")
                     ELSE IF answer.kind = "malformed"
                          THEN VecCaught(vec, "Cannot read properties of undefined",
                                         "embed")
                          ELSE [vec EXCEPT !.embedding = answer.embedding,
                                           !.pc = "storeEmbedding"]
    /\ UNCHANGED <<handler, probe, others, payments>>

\* the update of text_embedding answers (its result is not inspected) and
\* the key terms are requested
VecStoreEmbedding ==
    /\ vec.pc = "storeEmbedding"
    /\ \E storeOk \in BOOLEAN :
         scans' = IF storeOk THEN WithEmbedding(vec.scanId, vec.embedding) ELSE scans
    /\ vec' = [vec EXCEPT !.pc = "keyTerms"]
    /\ UNCHANGED <<scan_results, pc, scanId, supabase, aggregation, resultsToInsert,
                   error, response, log, probe, others, payments>>

\* the key-term request answers; response.ok is not tested, so a body without
\* choices raises a TypeError; then the registry is asked
VecKeyTerms ==
    /\ vec.pc = "keyTerms"
    /\ \E answer \in {"throw", "malformed", "ok"} :
         vec' = IF answer = "throw" THEN VecCaught(vec, "fetch failed", "keyTerms")
                ELSE IF answer = "malformed"
                     THEN VecCaught(vec, "Cannot read properties of undefined",
                                    "keyTerms")
                     ELSE [vec EXCEPT !.pc = "uspto"]
    /\ UNCHANGED <<handler, probe, others, payments>>

\* 1. the registry answers; its errors are swallowed
VecUspto ==
    /\ vec.pc = "uspto"
    /\ \E answer \in UsptoAnswers(FALSE) :
         vec' = [vec EXCEPT !.allResults = @ \o VecPatentCandidates(answer.docs),
                            !.pc = "aiPatents"]
    /\ UNCHANGED <<handler, probe, others, payments>>

\* 2. the AI patent search answers; every item of the array is pushed
VecAiPatents ==
    /\ vec.pc = "aiPatents"
    /\ \E answer \in AiPatentAnswers :
         vec' = [vec EXCEPT
                    !.allResults = @ \o [i \in 1..Len(answer.items) |->
                                            AiPatentCandidate(answer.items[i])],
                    !.pc = "startups"]
    /\ UNCHANGED <<handler, probe, others, payments>>

\* 3. the startup search answers; every item is pushed; then the first
\* candidate's embedding is requested, or with no candidate the status update
VecStartups ==
    /\ vec.pc = "startups"
    /\ \E answer \in StartupAnswers :
         LET results == vec.allResults \o [i \in 1..Len(answer.items) |->
                                              StartupCandidate(answer.items[i])]
         IN  vec' = [vec EXCEPT !.allResults = results,
                                !.next = IF results = <<>> THEN 0 ELSE 1,
                                !.pc = IF results = <<>> THEN "status" ELSE "candEmbed"]
    /\ UNCHANGED <<handler, probe, others, payments>>

\* the loop over allResults, one embeddings request after another: a
\* non-success answer skips the candidate, an answer with an embedding pushes
\* its row, a rejected request or a body without data[0] throws to the catch
\* block; after the last one the rows are sorted and inserted
VecCandEmbed ==
    /\ vec.pc = "candEmbed"
    /\ \E answer \in EmbeddingAnswers :
         LET i    == vec.next
             rows == IF answer.kind = "ok"
                     THEN Append(vec.resultsToInsert,
                                 VecToRow(vec.scanId, vec.allResults[i],
                                          CosineScore(vec.embedding, answer.embedding)))
                     ELSE vec.resultsToInsert
             went == [vec EXCEPT !.failed = IF answer.kind = "ok" THEN @ ELSE @ \cup {i}]
         IN  vec' = IF answer.kind = "throw"
                    THEN VecCaught(went, "fetch failed", "candEmbed")
                    ELSE IF answer.kind = "malformed"
                    THEN VecCaught(went, "Cannot read properties of undefined",
                                   "candEmbed")
                    ELSE IF i < Len(vec.allResults)
                    THEN [went EXCEPT !.resultsToInsert = rows, !.next = i + 1]
                    ELSE [went EXCEPT !.resultsToInsert = SortByScore(rows),
                                      !.pc = IF rows = <<>> THEN "status"
                                             ELSE "insert"]
    /\ UNCHANGED <<handler, probe, others, payments>>

\* insert(resultsToInsert): every row is stored or none is; an error value
\* is thrown, with a message when it is an Error
VecInsert ==
    /\ vec.pc = "insert"
    /\ \E storeOk \in BOOLEAN :
         IF storeOk /\ \A i \in 1..Len(vec.resultsToInsert) :
                          RowAccepted(vec.resultsToInsert[i])
         THEN /\ scan_results' = scan_results \o
                     [i \in 1..Len(vec.resultsToInsert) |->
                         Stored(vec.resultsToInsert[i], VecRun)]
              /\ vec' = [vec EXCEPT !.pc = "status"]
         ELSE /\ \E msg \in {"insert refused", "Unknown error occurred"} :
                   vec' = VecCaught(vec, msg, "insert")
              /\ UNCHANGED scan_results
    /\ UNCHANGED <<scans, pc, scanId, supabase, aggregation, resultsToInsert,
                   error, response, log, probe, others, payments>>

\* the status update answers (its result is not inspected) and the success
\* report follows
VecUpdateCompleted ==
    /\ vec.pc = "status"
    /\ \E storeOk \in BOOLEAN :
         /\ scans' = IF storeOk THEN WithStatus(vec.scanId, "completed") ELSE scans
         /\ vec' = [vec EXCEPT
                       !.pc = "done",
                       !.wrote = IF storeOk THEN "completed" ELSE "completed_rejected",
                       !.response = VecSuccess(Len(vec.resultsToInsert), vec.allResults)]
    /\ UNCHANGED <<scan_results, pc, scanId, supabase, aggregation, resultsToInsert,
                   error, response, log, probe, others, payments>>

\* ------------------------------ process-scan, the market-analysis variant
\* the run number its stored rows carry
MktRun == 3

\* the analyses JSON.parse may give: a score and a market trend stand for
\* the whole object
Analyses == {[tech_score |-> n, trend |-> t] :
                n \in {CheckMin, OtherBase, CheckMax}, t \in {"growing", "stable", "declining"}}

\* the analysis request: rejected, answered with a non-success status, with a
\* body without choices, with a content that is no JSON, or with an analysis
AnalysisAnswers ==
    {[kind |-> k, analysis |-> NoAnalysis] :
        k \in {"throw", "not_ok", "malformed", "unparseable"}}
    \cup {[kind |-> "analysis", analysis |-> a] : a \in Analyses}

\* throw inside the try: control passes to the catch block
MktThrow(v, msg, cause) == [v EXCEPT !.pc = "catch", !.error = msg, !.cause = cause]

\* the request arrives: the client is created and the body is read, which
\* uses the body up
MktInvoke(id) ==
    /\ mkt.pc = "idle"
    /\ LET read == [mkt EXCEPT !.bodyUsed = TRUE, !.body = id, !.scanId = id]
       IN  mkt' = IF id = NoId THEN MktThrow(read, "scanId is required", "no_id")
                  ELSE [read EXCEPT !.pc = "fetchScan"]
    /\ UNCHANGED <<handler, probe, payments, vec, form, view, grants>>

\* the scan lookup answers; found, the analysis is requested
MktFetchScan ==
    /\ mkt.pc = "fetchScan"
    /\ \E storeOk \in BOOLEAN :
         mkt' = IF storeOk /\ mkt.scanId \in DOMAIN scans
                THEN [mkt EXCEPT !.pc = "analyze"]
                ELSE MktThrow(mkt, "Scan not found", "not_found")
    /\ UNCHANGED <<handler, probe, payments, vec, form, view, grants>>

\* the analysis request answers; an analysis parsed, the insert is sent
MktAnalyze ==
    /\ mkt.pc = "analyze"
    /\ \E answer \in AnalysisAnswers :
         mkt' = CASE answer.kind = "throw" -> MktThrow(mkt, "fetch failed", "analysis")
                  [] answer.kind = "not_ok" ->
                         MktThrow(mkt, "Failed to analyze idea with AI", "analysis")
                  [] answer.kind = "malformed" ->
                         MktThrow(mkt, "Cannot read properties of undefined", "analysis")
                  [] answer.kind = "unparseable" ->
                         MktThrow(mkt, "Invalid AI response format", "parse")
                  [] OTHER -> [mkt EXCEPT !.analysis = answer.analysis, !.pc = "insert"]
    /\ UNCHANGED <<handler, probe, payments, vec, form, view, grants>>

\* the insert answers; an error value is thrown, and it is no Error
MktInsert ==
    /\ mkt.pc = "insert"
    /\ \E storeOk \in BOOLEAN :
         IF storeOk /\ mkt.scanId \in DOMAIN scans
         THEN /\ scan_results' = Append(scan_results,
                                        [scan_id |-> mkt.scanId,
                                         tech_score |-> mkt.analysis.tech_score,
                                         market_performance |-> mkt.analysis.trend,
                                         run |-> MktRun])
              /\ mkt' = [mkt EXCEPT !.pc = "status"]
         ELSE /\ mkt' = MktThrow(mkt, "Unknown error", "insert")
              /\ UNCHANGED scan_results
    /\ UNCHANGED <<scans, pc, scanId, supabase, aggregation, resultsToInsert,
                   error, response, log, probe, payments, vec, form, view, grants>>

\* the status update answers (its result is not inspected) and the success
\* report follows
MktUpdateCompleted ==
    /\ mkt.pc = "status"
    /\ \E storeOk \in BOOLEAN :
         /\ scans' = IF storeOk THEN WithStatus(mkt.scanId, "completed") ELSE scans
         /\ mkt' = [mkt EXCEPT
                       !.pc = "done",
                       !.wrote = IF storeOk THEN "completed" ELSE "completed_rejected",
                       !.response = Success(0)]
    /\ UNCHANGED <<scan_results, pc, scanId, supabase, aggregation, resultsToInsert,
                   error, response, log, probe, payments, vec, form, view, grants>>

\* req.json().catch(() => ({})) in the catch block: a body already used
\* rejects, and the empty object stands in for it
BodyReadAgain(v) == IF v.bodyUsed THEN NoId ELSE v.body

\* the catch block: it reads the body again for the scan id and, with an
\* id, writes status failed; then the error report
MktCatch ==
    /\ mkt.pc = "catch"
    /\ LET id == BodyReadAgain(mkt)
       IN  IF id # NoId
           THEN \E storeOk \in BOOLEAN :
                  /\ scans' = IF storeOk THEN WithStatus(id, "failed") ELSE scans
                  /\ mkt' = [mkt EXCEPT
                                !.pc = "done", !.bodyUsed = TRUE,
                                !.wrote = IF storeOk THEN "failed" ELSE "failed_rejected",
                                !.response = Failure(mkt.error)]
           ELSE /\ mkt' = [mkt EXCEPT !.pc = "done", !.bodyUsed = TRUE,
                                      !.response = Failure(mkt.error)]
                /\ UNCHANGED scans
    /\ UNCHANGED <<scan_results, pc, scanId, supabase, aggregation, resultsToInsert,
                   error, response, log, probe, payments, vec, form, view, grants>>

\* --------------------------------------------------------- specifications
Step(r, wide) ==
    \/ \E id \in RequestIds : Invoke(r, id)
    \/ FetchScan(r)
    \/ ExtractKeyTerms(r, wide)
    \/ UsptoSearch(r, wide)
    \/ AiQuery(r, wide)
    \/ AiExtract(r, wide)
    \/ InsertResults(r)
    \/ UpdateCompleted(r)
    \/ CatchFailed(r)

\* invocations of the function, interleaved
Next == \E r \in Runs : Step(r, FALSE)
Spec == Init /\ [][Next]_vars

\* one invocation, over the wide range of service answers
NextPipeline == Step(1, TRUE)
SpecPipeline == Init /\ [][NextPipeline]_vars

\* one invocation, when the scans were stored with an empty text
SpecEmptyText == InitEmptyText /\ [][NextPipeline]_vars

\* one invocation whose AI extractions may answer with title-less items
NextUntitled ==
    \/ \E id \in RequestIds : Invoke(1, id)
    \/ FetchScan(1)
    \/ ExtractKeyTerms(1, FALSE)
    \/ UsptoSearch(1, FALSE)
    \/ AiQuery(1, FALSE)
    \/ AiExtractUntitled(1)
    \/ InsertResults(1)
    \/ UpdateCompleted(1)
    \/ CatchFailed(1)
SpecUntitled == Init /\ [][NextUntitled]_vars

\* one invocation whose sources answer with arrays of any length
NextLong ==
    \/ \E id \in RequestIds : Invoke(1, id)
    \/ FetchScan(1)
    \/ ExtractKeyTerms(1, FALSE)
    \/ UsptoSearchLong(1)
    \/ AiQuery(1, FALSE)
    \/ AiExtractLong(1)
    \/ InsertResults(1)
    \/ UpdateCompleted(1)
    \/ CatchFailed(1)
SpecLong == Init /\ [][NextLong]_vars

\* one invocation of the vector variant
NextVector ==
    \/ \E id \in RequestIds : VecInvoke(id)
    \/ VecFetchScan
    \/ VecEmbed
    \/ VecStoreEmbedding
    \/ VecKeyTerms
    \/ VecUspto
    \/ VecAiPatents
    \/ VecStartups
    \/ VecCandEmbed
    \/ VecInsert
    \/ VecUpdateCompleted
SpecVector == Init /\ [][NextVector]_vars

\* one invocation whose AI extractions answer with arrays of mixed items
NextMixed ==
    \/ \E id \in RequestIds : Invoke(1, id)
    \/ FetchScan(1)
    \/ ExtractKeyTerms(1, FALSE)
    \/ UsptoSearch(1, FALSE)
    \/ AiQuery(1, FALSE)
    \/ AiExtractMixed(1)
    \/ InsertResults(1)
    \/ UpdateCompleted(1)
    \/ CatchFailed(1)
SpecMixed == Init /\ [][NextMixed]_vars

\* one invocation of the market-analysis variant
NextMarket ==
    \/ \E id \in ScanIds \cup RequestIds : MktInvoke(id)
    \/ MktFetchScan
    \/ MktAnalyze
    \/ MktInsert
    \/ MktUpdateCompleted
    \/ MktCatch
SpecMarket == Init /\ [][NextMarket]_vars

\* a submission through the form and the invocation it starts
NextForm ==
    \/ \E text_input \in FormTexts, user \in Users : FormSubmit(text_input, user)
    \/ \E text_input \in FormTexts : FormSubmit(text_input, NULL)
    \/ InvokeFails
    \/ InvokeStarts
    \/ FetchScan(1)
    \/ ExtractKeyTerms(1, FALSE)
    \/ UsptoSearch(1, FALSE)
    \/ AiQuery(1, FALSE)
    \/ AiExtract(1, FALSE)
    \/ InsertResults(1)
    \/ UpdateCompleted(1)
    \/ CatchFailed(1)
\* every call returns or fails: whatever can take a step eventually does
SpecForm == Init /\ [][NextForm]_vars /\ WF_vars(NextForm)

\* calls of verify-payment with the reference of one successful payment,
\* for either scan
NextReferences ==
    \/ \E id \in ScanIds : VpInvoke(TRUE, "ref1", id)
    \/ VpGetUser
    \/ VpVerify
    \/ VpUpsert
SpecReferences == Init /\ [][NextReferences]_vars

\* the view of one scan while one invocation works on that scan
NextView ==
    \/ ViewMount("s1")
    \/ FetchRead
    \/ FetchReturn
    \/ \E which \in {"check", "recheck"} : CheckRead(which)
    \/ \E which \in {"check", "recheck"} : CheckReturn(which)
    \/ TimerFires
    \/ RealtimeInsert
    \/ RealtimeUpdate
    \/ Invoke(1, "s1")
    \/ FetchScan(1)
    \/ ExtractKeyTerms(1, FALSE)
    \/ UsptoSearch(1, FALSE)
    \/ AiQuery(1, FALSE)
    \/ AiExtract(1, FALSE)
    \/ InsertResults(1)
    \/ UpdateCompleted(1)
    \/ CatchFailed(1)
\* every request is answered, every event delivered and the timer fires
SpecView == Init /\ [][NextView]_vars /\ WF_vars(NextView)

\* scans are created and deleted while one invocation of process-scan and
\* invocations of verify-payment for a scan run
NextLifecycle ==
    \/ HandleScan(<<"idea">>, NULL)
    \/ \E id \in {"s1"} \cup NewScanIds : DeleteScan(id)
    \/ Step(1, FALSE)
    \/ VpInvoke(TRUE, "ref1", "s1")
    \/ VpGetUser
    \/ VpVerify
    \/ VpUpsert
SpecLifecycle == Init /\ [][NextLifecycle]_vars

\* scans are created, through the form or by an insert sent to the store
NextCreation ==
    \/ \E text_input \in FormTexts, user \in Users \cup {NULL} :
          HandleScan(text_input, user)
    \/ \E text_input \in FormTexts, user \in Users \cup {NULL} :
          InsertScan(text_input, user)
    \/ \E id \in ScanIds \cup NewScanIds : DeleteScan(id)
    \/ Tick
SpecCreation == Init /\ [][NextCreation]_vars

\* invocations of verify-payment, one after another, as time passes
NextPayments ==
    \/ \E auth \in BOOLEAN, reference \in VpReferences, id \in VpScanIds :
          VpInvoke(auth, reference, id)
    \/ VpGetUser
    \/ VpVerify
    \/ VpUpsert
    \/ Tick
SpecPayments == Init /\ [][NextPayments]_vars

\* the scorer on its own

\* Math.max(30, Math.min(95, base + bonus + variation)), rounded
ApplySimilarityScore ==
    /\ probe.kind = "score"
    /\ ~probe.applied
    /\ probe' = [probe EXCEPT !.applied = TRUE,
                              !.score = SimilarityScore(probe.base, probe.matchCount,
                                                        probe.size, probe.rnd)]
    /\ UNCHANGED <<handler, payments, vec, others>>

\* allResults.map(...).filter(...) with the random variation held at 0, on
\* the whole list and on each candidate alone
ApplyScoredRows ==
    /\ probe.kind = "rows"
    /\ ~probe.applied
    /\ LET inputTerms == InputTerms(probe.searchTerms)
           n          == Len(probe.results)
       IN  probe' = [probe EXCEPT
                        !.applied = TRUE,
                        !.rows = ScoredRows("s1", probe.results, inputTerms,
                                            [i \in 1..n |-> 0], 1),
                        !.alone = [i \in 1..n |->
                                     ScoredRows("s1", <<probe.results[i]>>, inputTerms,
                                                <<0>>, 1)]]
    /\ UNCHANGED <<handler, payments, vec, others>>

NextScorer == ApplySimilarityScore \/ ApplyScoredRows
SpecScorer == InitScorer /\ [][NextScorer]_vars

\* the earlier variant's map with the random variation held at 0
ApplyEarlierScoredRows ==
    /\ probe.kind = "earlier"
    /\ ~probe.applied
    /\ probe' = [probe EXCEPT
                    !.applied = TRUE,
                    !.rows = EarlierScoredRows("s1", probe.results,
                                               InputTerms(probe.searchTerms),
                                               [i \in 1..Len(probe.results) |-> 0], 1)]
    /\ UNCHANGED <<handler, payments, vec, others>>

\* the map of both lexical variants, each applied on its own
NextLexical == ApplyScoredRows \/ ApplyEarlierScoredRows
SpecLexical == InitLexical /\ [][NextLexical]_vars

\* ----------------------------------------------------------------- claims
\* the rows an invocation has stored, in insertion order
RowsBy(r) == SelectSeq(scan_results, LAMBDA row : row.run = r)

\* C1: every row persisted in scan_results, and every row an invocation has
\* prepared for its batch insert, has a similarity score between 0 and 100.
C1_ScoreWithinBounds ==
    /\ \A i \in 1..Len(scan_results) :
          /\ scan_results[i].similarity_score >= 0
          /\ scan_results[i].similarity_score <= 100 * 100
    /\ \A r \in Runs : \A i \in 1..Len(resultsToInsert[r]) :
          /\ resultsToInsert[r][i].similarity_score >= 0
          /\ resultsToInsert[r][i].similarity_score <= 100 * 100

\* a row was persisted whose score the clamp cut down to the ceiling of 95
C1_Witness ==
    \E i \in 1..Len(scan_results) :
        /\ scan_results[i].similarity_score = ScoreCeil * 100
        /\ scan_results[i].source_type = "patent"

\* C2: every persisted row has a non-empty URL that begins with http:// or
\* https://, and no candidate with a missing, null or other-scheme URL has a
\* row in the batch or in the table.
IsHttpUrl(u) == u # NULL /\ Len(u) > 0 /\ u[1] \in {"http://", "https://"}

C2_PersistedUrlIsHttp ==
    /\ \A i \in 1..Len(scan_results) : IsHttpUrl(scan_results[i].url)
    /\ \A r \in Runs : \A k \in 1..Len(allResults[r]) :
          ~IsHttpUrl(allResults[r][k].url) =>
              /\ \A i \in 1..Len(resultsToInsert[r]) : resultsToInsert[r][i].arrival # k
              /\ \A i \in 1..Len(RowsBy(r)) : RowsBy(r)[i].arrival # k

\* a registry hit without patent number was dropped while another candidate
\* of the same invocation was persisted
C2_Witness ==
    \E r \in Runs :
        /\ \E k \in 1..Len(allResults[r]) : allResults[r][k].url = NULL
        /\ Len(RowsBy(r)) > 0
        /\ Len(RowsBy(r)) < Len(allResults[r])

\* the invocation's batch is in the table, row for row
FullBatch(r) ==
    /\ Len(RowsBy(r)) = Len(resultsToInsert[r])
    /\ \A i \in 1..Len(RowsBy(r)) : RowsBy(r)[i] = Stored(resultsToInsert[r][i], r)

StatusOf(id) == IF id \in DOMAIN scans THEN scans[id].status ELSE "absent"

\* C3 as stated: a run whose key-term extraction failed has ended with the
\* scan's status failed, no row persisted by it and no source queried.
C3_ExtractionFailureLeavesFailed ==
    \A r \in Runs :
        (pc[r] = "done" /\ log[r].cause = "extract") =>
            /\ StatusOf(scanId[r]) = "failed"
            /\ RowsBy(r) = <<>>
            /\ log[r].contacted = {"extractor"}

\* C3 amended: a run whose key-term extraction failed queries no source and
\* persists no row; it ends with one best-effort write of status failed and
\* the error response; the scan is failed when that write is accepted.
C3_ExtractionFailureBestEffort ==
    /\ [](\A r \in Runs :
            log[r].cause = "extract" =>
                /\ pc[r] \in {"catch", "done"}
                /\ RowsBy(r) = <<>>
                /\ resultsToInsert[r] = <<>>
                /\ log[r].contacted = {"extractor"}
                /\ pc[r] = "done" =>
                      /\ log[r].wrote \in {"failed", "failed_rejected"}
                      /\ response[r].status = 500)
    /\ [][\A r \in Runs :
            (log[r].cause = "extract" /\ pc[r] = "catch" /\ pc'[r] = "done") =>
                /\ scan_results' = scan_results
                /\ IF log'[r].wrote = "failed"
                   THEN StatusOf(scanId[r])' = "failed"
                   ELSE scans' = scans]_vars

\* extraction failed, the store rejected the status write, the run is over
C3_Witness ==
    \E r \in Runs :
        /\ pc[r] = "done"
        /\ log[r].cause = "extract"
        /\ log[r].wrote = "failed_rejected"
        /\ StatusOf(scanId[r]) = "processing"

\* C4: the step that ends a run whose extraction succeeded and whose batch
\* is empty leaves the scan completed, adds no row and reports success with
\* a count of 0.
C4_EmptyBatchCompletes ==
    [][\A r \in Runs :
          (pc[r] = "status" /\ pc'[r] = "done" /\ resultsToInsert[r] = <<>>) =>
              /\ StatusOf(scanId[r])' = "completed"
              /\ scan_results' = scan_results
              /\ response'[r] = Success(0)]_vars

\* C5: a status that is completed or failed is never changed by any step.
C5_TerminalStatusIsFinal ==
    [][\A s \in DOMAIN scans :
          scans[s].status \in {"completed", "failed"} =>
              (s \in DOMAIN scans' /\ scans'[s].status = scans[s].status)]_vars

\* C6: for every scan at most one batch of rows is ever inserted and at most
\* one status write changes its status.
Batches(s) == {scan_results[i].run : i \in {j \in 1..Len(scan_results) :
                                              scan_results[j].scan_id = s}}
StatusWrites(s) == {r \in Runs : scanId[r] = s /\ log[r].changed}

C6_OneBatchOneTransition ==
    \A s \in DOMAIN scans :
        /\ Cardinality(Batches(s)) <= 1
        /\ Cardinality(StatusWrites(s)) <= 1

\* C7 as stated: the rows a run added are its whole batch or none, and a run
\* whose batch insert failed has ended with status failed and an error.
C7_AllOrNothingThenFailed ==
    \A r \in Runs :
        /\ RowsBy(r) = <<>> \/ FullBatch(r)
        /\ (pc[r] = "done" /\ log[r].cause = "insert") =>
              /\ StatusOf(scanId[r]) = "failed"
              /\ response[r].status = 500

\* C7 amended: the rows a run added are its whole batch or none; a run whose
\* batch insert failed added none, ends with one best-effort write of status
\* failed and the error response, and the scan is failed when that write is
\* accepted.
C7_AllOrNothingBestEffort ==
    /\ [](\A r \in Runs :
            /\ RowsBy(r) = <<>> \/ FullBatch(r)
            /\ log[r].cause = "insert" =>
                  /\ RowsBy(r) = <<>>
                  /\ pc[r] \in {"catch", "done"}
                  /\ pc[r] = "done" =>
                        /\ log[r].wrote \in {"failed", "failed_rejected"}
                        /\ response[r].status = 500)
    /\ [][\A r \in Runs :
            (log[r].cause = "insert" /\ pc[r] = "catch" /\ pc'[r] = "done") =>
                /\ scan_results' = scan_results
                /\ IF log'[r].wrote = "failed"
                   THEN StatusOf(scanId[r])' = "failed"
                   ELSE scans' = scans]_vars

\* a batch of two rows or more was rejected and the run ended in failure
C7_Witness ==
    \E r \in Runs :
        /\ pc[r] = "done"
        /\ log[r].cause = "insert"
        /\ Len(resultsToInsert[r]) >= 2
        /\ log[r].wrote = "failed"
        /\ StatusOf(scanId[r]) = "failed"

\* C8: once a run has written status completed, every row of its batch is in
\* the table (and stays exactly that batch); a scan read as completed has a
\* run that wrote it.
C8_InsertBeforeCompleted ==
    /\ \A r \in Runs : log[r].wrote = "completed" => FullBatch(r)
    /\ \A s \in DOMAIN scans :
          scans[s].status = "completed" =>
              \E r \in Runs : scanId[r] = s /\ log[r].wrote = "completed"

\* a scan reads completed and the run that wrote it had a batch of two rows
C8_Witness ==
    \E r \in Runs :
        /\ log[r].wrote = "completed"
        /\ StatusOf(scanId[r]) = "completed"
        /\ Len(resultsToInsert[r]) >= 2
        /\ FullBatch(r)

\* C9: the rows of a batch are in non-increasing order of score, and rows
\* with equal scores are in the order their candidates arrived.
C9_SortedStably ==
    \A r \in Runs : \A i, j \in 1..Len(resultsToInsert[r]) :
        i < j =>
            /\ resultsToInsert[r][i].similarity_score >= resultsToInsert[r][j].similarity_score
            /\ resultsToInsert[r][i].similarity_score = resultsToInsert[r][j].similarity_score
                  => resultsToInsert[r][i].arrival < resultsToInsert[r][j].arrival

\* a batch about to be inserted in which a later arrival outranks an earlier
\* one and two rows tie, the registry hit standing before the AI hit
C9_Witness ==
    \E r \in Runs :
        /\ pc[r] = "insert"
        /\ Len(resultsToInsert[r]) >= 3
        /\ \E i, j \in 1..Len(resultsToInsert[r]) :
              /\ i < j
              /\ resultsToInsert[r][i].arrival > resultsToInsert[r][j].arrival
        /\ \E i, j \in 1..Len(resultsToInsert[r]) :
              /\ i < j
              /\ resultsToInsert[r][i].similarity_score = resultsToInsert[r][j].similarity_score
              /\ resultsToInsert[r][i].origin = "uspto"
              /\ resultsToInsert[r][j].origin # "uspto"

\* the candidates of one origin, in arrival order
From(results, o) == SelectSeq(results, LAMBDA c : c.origin = o)
\* what a source's raw hits come to once normalized
Normalized(hits, o) ==
    IF o = "uspto" THEN PatentCandidates(hits) ELSE CompanyCandidates(hits, o)
RECURSIVE HitCount(_, _)
HitCount(r, os) ==
    IF os = {} THEN 0
    ELSE LET o == CHOOSE x \in os : TRUE
         IN  (IF log[r].source[o] = "ok" THEN Len(log[r].hits[o]) ELSE 0)
             + HitCount(r, os \ {o})

\* C10: a source that failed contributes no candidate and does not abort the
\* run; the candidates are exactly the normalized hits of the sources that
\* succeeded, and the rows persisted never outnumber those hits.
C10_SourceFailureIsolated ==
    \A r \in Runs :
        /\ log[r].cause \in {"none", "no_id", "not_found", "extract", "insert"}
        /\ \A o \in Origins :
              /\ log[r].source[o] = "failed" => From(allResults[r], o) = <<>>
              /\ log[r].source[o] = "ok" =>
                    From(allResults[r], o) = Normalized(log[r].hits[o], o)
              /\ log[r].source[o] = "none" => From(allResults[r], o) = <<>>
        /\ (\E o \in Origins : log[r].source[o] = "failed") =>
              pc[r] \in {"aiQuery", "aiExtract", "insert", "status", "done"}
              \/ (pc[r] = "catch" /\ log[r].cause = "insert")
        /\ Len(resultsToInsert[r]) <= HitCount(r, Origins)
        /\ Len(RowsBy(r)) <= HitCount(r, Origins)

\* the registry request threw, one AI extraction failed and the other
\* answered; the run completed with the rows of the one that answered
C10_Witness ==
    \E r \in Runs :
        /\ pc[r] = "done"
        /\ log[r].source["uspto"] = "failed"
        /\ log[r].source["q1"] = "ok"
        /\ log[r].source["q2"] = "failed"
        /\ Len(RowsBy(r)) = 1
        /\ log[r].wrote = "completed"
        /\ response[r] = Success(1)

\* C11: an invocation without a scan id reports that error with a non-2xx
\* status, contacts no external service, and none of its steps creates or
\* modifies a row of scans or scan_results.
C11_MissingIdTouchesNothing ==
    /\ [](\A r \in Runs :
            (pc[r] # "idle" /\ scanId[r] = NoId) =>
                /\ log[r].cause = "no_id"
                /\ log[r].contacted = {}
                /\ ~log[r].changed
                /\ RowsBy(r) = <<>>
                /\ pc[r] = "done" => response[r] = Failure("Scan ID is required"))
    /\ [][\A r \in Runs :
            (pc'[r] # pc[r] /\ scanId'[r] = NoId) => UNCHANGED store]_vars

\* an invocation without a scan id has answered
C11_Witness ==
    \E r \in Runs :
        /\ scanId[r] = NoId
        /\ pc[r] = "done"
        /\ response[r].status = 500
        /\ response[r].error = "Scan ID is required"
        /\ log[r].wrote = "no_client"

\* C12: when the scan does not exist or the scan lookup returns an error, the
\* invocation reports the error to the caller and mutates no state: it stores
\* no row and changes no scan's status.
C12_ScanNotFoundMutatesNothing ==
    \A r \in Runs :
        log[r].cause = "not_found" =>
            /\ RowsBy(r) = <<>>
            /\ ~log[r].changed
            /\ pc[r] = "done" => response[r] = Failure("Scan not found")

\* C13: an invocation on a scan whose text is empty raises an invalid-request
\* error and contacts no external service: once it has read the scan it is
\* in its error path, it has contacted nothing, and it answers non-2xx.
C13_EmptyTextRejected ==
    \A r \in Runs :
        (/\ pc[r] \notin {"idle", "fetchScan"}
         /\ scanId[r] \in DOMAIN scans
         /\ scans[scanId[r]].text_input = <<>>
         /\ log[r].cause # "not_found") =>
            /\ pc[r] \in {"catch", "done"}
            /\ log[r].contacted = {}
            /\ pc[r] = "done" => response[r].status = 500

\* C14: a write of status failed is attempted only after a failure of the
\* key-term extraction or of the batch insert; a missing scan id, a scan not
\* found, a failed source and an unparsable answer never lead to that write.
C14_OnlyFatalKindsWriteFailed ==
    \A r \in Runs :
        log[r].wrote \in {"failed", "failed_rejected"} =>
            log[r].cause \in {"extract", "insert"}

\* the messages an error of each cause carries
Messages(cause) ==
    CASE cause = "no_id"     -> {"Scan ID is required"}
      [] cause = "not_found" -> {"Scan not found"}
      [] cause = "extract"   -> {"extraction failed"}
      [] cause = "insert"    -> {"Unknown error occurred", "insert failed"}
      [] OTHER               -> {}

\* C15: when an invocation fails and its best-effort write of status failed
\* fails too (rejected by the store, or no client to write with), the second
\* failure is not re-raised: the response is non-2xx and its error message is
\* the message of the original error.
C15_SecondFailureNotReraised ==
    \A r \in Runs :
        (pc[r] = "done" /\ log[r].wrote \in {"failed_rejected", "no_client"}) =>
            /\ response[r].status = 500
            /\ ~response[r].success
            /\ response[r].error = error[r]
            /\ response[r].error \in Messages(log[r].cause)

\* the insert was rejected, then the write of status failed was rejected too
C15_Witness ==
    \E r \in Runs :
        /\ pc[r] = "done"
        /\ log[r].cause = "insert"
        /\ log[r].wrote = "failed_rejected"
        /\ scans[scanId[r]].status = "processing"
        /\ response[r] = Failure("insert failed")

\* C16: the response of an invocation is either a success report whose
\* resultsCount is the number of rows that invocation stored, or an error
\* message with a non-2xx status; a success report never carries another count.
C16_CountMatchesRowsStored ==
    \A r \in Runs :
        pc[r] = "done" =>
            \/ /\ response[r].success
               /\ response[r].status = 200
               /\ response[r].resultsCount = Len(RowsBy(r))
            \/ /\ ~response[r].success
               /\ response[r].status = 500
               /\ response[r].error # ""

\* a success report for fewer rows than candidates gathered: one candidate
\* was dropped before the insert
C16_Witness ==
    \E r \in Runs :
        /\ pc[r] = "done"
        /\ response[r].success
        /\ response[r].resultsCount = Len(RowsBy(r))
        /\ response[r].resultsCount >= 1
        /\ response[r].resultsCount < Len(allResults[r])

Scored(r) ==
    \/ pc[r] \in {"insert", "status"}
    \/ pc[r] = "catch" /\ log[r].cause = "insert"
    \/ pc[r] = "done" /\ log[r].cause \in {"none", "insert"}

\* C18: scoring, sorting and persistence start only after every source call
\* of the invocation has completed or failed: once scoring has begun the
\* registry has an outcome, no AI query remains to run, every scored row comes
\* from a candidate gathered before, and no candidate is added afterwards.
C18_ScoringAfterAllSources ==
    /\ [](\A r \in Runs :
            Scored(r) =>
                /\ log[r].source["uspto"] \in {"ok", "failed"}
                /\ "ai" \in log[r].contacted
                /\ queries[r] = 0
                /\ \A i \in 1..Len(resultsToInsert[r]) :
                      resultsToInsert[r][i].arrival \in 1..Len(allResults[r]))
    /\ [][\A r \in Runs :
            Scored(r) => /\ allResults'[r] = allResults[r]
                         /\ resultsToInsert'[r] = resultsToInsert[r]
                         /\ log'[r].source = log[r].source]_vars

\* the batch was prepared after the registry and both AI extractions had
\* answered, each with a candidate
C18_Witness ==
    \E r \in Runs :
        /\ pc[r] = "insert"
        /\ \A o \in Origins : log[r].source[o] = "ok"
        /\ queries[r] = 0
        /\ Len(resultsToInsert[r]) = 3

\* C19: every score the lexical scorer produces lies in [30, 95], for a
\* registry and for an AI candidate, for every number of matched terms from
\* none to all, and for every random variation in [-7.5, +7.5].
C19_LexicalScoreClamped ==
    (probe.kind = "score" /\ probe.applied) =>
        /\ probe.score >= ScoreFloor * 100
        /\ probe.score <= ScoreCeil * 100

\* a registry candidate matching every term with the largest variation: the
\* sum is above the ceiling and the score is the ceiling
C19_Witness ==
    /\ probe.kind = "score"
    /\ probe.applied
    /\ probe.base = PatentBase
    /\ probe.matchCount = probe.size
    /\ probe.rnd = RandomSpan * 50
    /\ probe.score = ScoreCeil * 100

\* the rows scored for the candidate at position i
RowAt(rows, i) == SelectSeq(rows, LAMBDA row : row.arrival = i)
\* what the scorer reads of a candidate
SameCandidate(a, b) ==
    /\ a.title = b.title
    /\ a.snippet = b.snippet
    /\ a.source_type = b.source_type
    /\ a.country = b.country

\* C20: with the random variation held fixed, the score of a candidate
\* depends on the key terms and on the candidate only: scored within a list
\* it gets the score it gets when scored alone, and two candidates with the
\* same title, snippet, source kind and country get the same score wherever
\* they stand in the list.
C20_ScoringIsPure ==
    (probe.kind = "rows" /\ probe.applied) =>
        /\ \A i \in 1..Len(probe.results) :
              /\ Len(RowAt(probe.rows, i)) = Len(probe.alone[i])
              /\ probe.alone[i] # <<>> =>
                    RowAt(probe.rows, i)[1].similarity_score
                        = probe.alone[i][1].similarity_score
        /\ \A i, j \in 1..Len(probe.results) :
              (/\ SameCandidate(probe.results[i], probe.results[j])
               /\ RowAt(probe.rows, i) # <<>>
               /\ RowAt(probe.rows, j) # <<>>) =>
                  RowAt(probe.rows, i)[1].similarity_score
                      = RowAt(probe.rows, j)[1].similarity_score

\* a list in which the same candidate stands first and last, around a
\* candidate that scores differently, and every one matched a term
C20_Witness ==
    /\ probe.kind = "rows"
    /\ probe.applied
    /\ Len(probe.rows) = 3
    /\ probe.results[1] = probe.results[3]
    /\ probe.rows[1].similarity_score = probe.rows[3].similarity_score
    /\ probe.rows[2].similarity_score # probe.rows[1].similarity_score
    /\ \A i \in 1..3 : MatchCount(probe.results[i], InputTerms(probe.searchTerms)) >= 1

\* a candidate none of whose optional fields is missing
AllPresent(c) ==
    /\ \A f \in {"title", "owner", "snippet", "url"} : c[f] # NULL
    /\ HasValidUrl(c)

\* C21: a candidate with every optional field present becomes a row with the
\* same title, owner, country, source kind and legal status, whose snippet is
\* the first 500 characters of the candidate's snippet.
C21_RowPreservesCandidate ==
    (probe.kind = "rows" /\ probe.applied) =>
        \A i \in 1..Len(probe.results) :
            AllPresent(probe.results[i]) =>
                /\ Len(RowAt(probe.rows, i)) = 1
                /\ LET c   == probe.results[i]
                       row == RowAt(probe.rows, i)[1]
                   IN  /\ \A f \in {"title", "owner", "country", "source_type",
                                    "legal_status"} : row[f] = c[f]
                       /\ Len(row.snippet) <= SnippetLen
                       /\ Len(row.snippet) = Min(Len(c.snippet), SnippetLen)
                       /\ \A k \in 1..Len(row.snippet) : row.snippet[k] = c.snippet[k]

\* an AI candidate whose snippet is one character over the limit has become
\* a row whose snippet is cut at the limit
C21_Witness ==
    /\ probe.kind = "rows"
    /\ probe.applied
    /\ Len(probe.results) = 1
    /\ AllPresent(probe.results[1])
    /\ Len(probe.results[1].snippet) = SnippetLen + 1
    /\ Len(probe.rows) = 1
    /\ Len(probe.rows[1].snippet) = SnippetLen
    /\ probe.rows[1].title = <<"A">>

\* C22: normalizing a raw hit has no failure path. A hit with a valid URL
\* and another field missing yields a candidate with the missing field filled
\* in, so every candidate has a title and every row prepared from the
\* candidates satisfies the constraints of scan_results: such a hit cannot
\* make the insert fail and take the other rows with it.
C22_MalformedFieldDegrades ==
    \A r \in Runs :
        /\ \A i \in 1..Len(allResults[r]) : allResults[r][i].title # NULL
        /\ \A i \in 1..Len(resultsToInsert[r]) : RowAccepted(resultsToInsert[r][i])

UnlocksOf(rows, user, scan) ==
    SelectSeq(rows, LAMBDA row : row.user_id = user /\ row.scan_id = scan)

\* C24: verify-payment grants an unlock for (user, scan) only after the
\* gateway has reported the transaction successful: a step that creates or
\* changes a row of scan_unlocks is the upsert of an invocation that was
\* authenticated, carried a reference and a scan id and got that report, and
\* it touches the row of that user and scan only; every other invocation
\* ends with scan_unlocks as it was.
C24_UnlockOnlyAfterVerifiedPayment ==
    [][scan_unlocks' # scan_unlocks =>
          /\ vp.pc = "upsert"
          /\ vp.auth
          /\ vp.user \in Users
          /\ vp.reference # NoId
          /\ vp.scanId # NoId
          /\ vp.gateway = "success"
          /\ vp'.success
          /\ \A u \in Users, s \in VpScanIds :
                <<u, s>> # <<vp.user, vp.scanId>> =>
                    UnlocksOf(scan_unlocks', u, s) = UnlocksOf(scan_unlocks, u, s)]_vars

\* both users hold an unlock of the scan after verified payments, and the
\* invocation that followed, for an unsuccessful transaction, changed nothing
C24_Witness ==
    /\ \A u \in Users : Len(UnlocksOf(scan_unlocks, u, "s1")) = 1
    /\ vp.pc = "done"
    /\ vp.gateway = "abandoned"
    /\ ~vp.success

\* C25: an unlock lasts 24 hours from the latest grant. A user and a scan
\* have at most one unlock row; its expiry is 24 hours after the latest
\* verified payment; and the scan is unlocked for the user exactly at the
\* times before that: from 24 hours after the latest grant on it is not.
C25_UnlockLastsOneDay ==
    \A u \in Users, s \in VpScanIds :
        LET rows == UnlocksOf(scan_unlocks, u, s)
        IN  /\ Len(rows) <= 1
            /\ Len(rows) = 0 => ~IsScanUnlocked(u, s)
            /\ Len(rows) = 1 =>
                  /\ rows[1].expires_at = rows[1].granted_at + UnlockHours
                  /\ IsScanUnlocked(u, s) <=>
                        clock.now < rows[1].granted_at + UnlockHours

\* 24 hours after both users paid: the one who paid again an hour ago still
\* has the scan unlocked, through the same row; for the other it is locked
C25_Witness ==
    \E u, v \in Users :
        /\ Len(UnlocksOf(scan_unlocks, u, "s1")) = 1
        /\ Len(UnlocksOf(scan_unlocks, v, "s1")) = 1
        /\ UnlocksOf(scan_unlocks, u, "s1")[1].unlocked_at = 0
        /\ UnlocksOf(scan_unlocks, u, "s1")[1].granted_at = UnlockHours - 1
        /\ UnlocksOf(scan_unlocks, v, "s1")[1].granted_at = 0
        /\ clock.now = UnlockHours
        /\ IsScanUnlocked(u, "s1")
        /\ ~IsScanUnlocked(v, "s1")

\* C26: after any sequence of scan creations, process-scan runs, unlock
\* grants and scan deletions, every result row and every unlock row refers
\* to a scan that still exists
C26_RowsReferToExistingScans ==
    /\ \A i \in 1..Len(scan_results) : scan_results[i].scan_id \in DOMAIN scans
    /\ \A i \in 1..Len(scan_unlocks) : scan_unlocks[i].scan_id \in DOMAIN scans

\* the scan was deleted after its run had completed with rows stored and
\* after a payment had unlocked it, and another scan has been created: its
\* result rows and its unlock rows are gone
C26_Witness ==
    /\ "s1" \notin DOMAIN scans
    /\ \E id \in NewScanIds : id \in DOMAIN scans
    /\ pc[1] = "done" /\ scanId[1] = "s1"
    /\ response[1].status = 200 /\ response[1].resultsCount > 0
    /\ vp.pc = "done" /\ vp.success /\ vp.scanId = "s1"
    /\ scan_results = <<>>
    /\ scan_unlocks = <<>>

\* C27: every scan that exists has a text that is neither empty nor made of
\* blanks only, however it was created
C27_EveryScanHasText ==
    \A s \in DOMAIN scans : Trim(scans[s].text_input) # <<>>

\* C28: the registry contributes at most 5 candidates to a run and each AI
\* extraction at most a fixed number (here twice the registry's cap, the
\* largest cap the specification names), so the list has a fixed upper bound
C28_SourcesAreCapped ==
    \A r \in Runs :
        /\ Len(From(allResults[r], "uspto")) <= RegistryCap
        /\ \A q \in {"q1", "q2"} : Len(From(allResults[r], q)) <= 2 * RegistryCap
        /\ Len(allResults[r]) <= RegistryCap + QueryCap * 2 * RegistryCap

\* the rows the vector variant has stored
VecRows == SelectSeq(scan_results, LAMBDA row : row.run = VecRun)

\* C29: in the vector variant, when the embedding of the scan's own text
\* cannot be produced, the scan's status becomes failed and no result row is
\* stored for it
C29_NoFingerprintMarksFailed ==
    (vec.pc = "done" /\ vec.cause = "embed")
        => /\ scans[vec.scanId].status = "failed"
           /\ \A i \in 1..Len(scan_results) : scan_results[i].scan_id # vec.scanId

\* C30: in the vector variant, when the embeddings request of a candidate
\* fails (and the store accepts what the run writes), the run ends with
\* status completed and stores one row for every other candidate
C30_FailedEmbeddingDropsOneCandidate ==
    (/\ vec.pc = "done"
     /\ vec.failed # {}
     /\ vec.cause \in {"none", "candEmbed"}
     /\ vec.wrote # "completed_rejected")
        => /\ scans[vec.scanId].status = "completed"
           /\ vec.response.success
           /\ Len(VecRows) = Len(vec.allResults) - Cardinality(vec.failed)
           /\ \A i \in (1..Len(vec.allResults)) \ vec.failed :
                 \E k \in 1..Len(VecRows) :
                     /\ VecRows[k].title = vec.allResults[i].title
                     /\ VecRows[k].url = vec.allResults[i].url

\* the base the claim gives a candidate: 75 from the registry, 55 from an AI
ClaimedBase(c) == IF c.origin = "uspto" THEN PatentBase ELSE OtherBase

\* C31: with the random variation at 0 (and no clamping, the sum being at
\* most 95), the score of a candidate is base + 20 * (m / n), n the number of
\* distinct terms, m the number of them occurring in the lower-cased title
\* and snippet, base 75 exactly for a registry candidate and 55 for an AI one
C31_ScoreIsBasePlusTermBonus ==
    (probe.kind \in {"rows", "earlier"} /\ probe.applied) =>
        LET inputTerms == InputTerms(probe.searchTerms)
            n          == Cardinality(inputTerms)
        IN  /\ n >= 1
            /\ \A k \in 1..Len(probe.rows) :
                  LET c == probe.results[probe.rows[k].arrival]
                      m == Cardinality({t \in inputTerms :
                              Includes(LowerText(Render(c.title) \o <<" ">>
                                                 \o Render(c.snippet)), t)})
                  IN  /\ m <= n
                      /\ probe.rows[k].similarity_score * 2 * n
                             >= 2 * (ClaimedBase(c) * 100 * n + BonusScale * 100 * m) - n
                      /\ probe.rows[k].similarity_score * 2 * n
                             <= 2 * (ClaimedBase(c) * 100 * n + BonusScale * 100 * m) + n

\* the items of an array whose URL is a text starting with http:// or https://
WithValidUrl(companies) ==
    SelectSeq(companies, LAMBDA c :
        /\ c.url # NULL
        /\ IsString(c.url)
        /\ (StartsWith(c.url, "http://") \/ StartsWith(c.url, "https://")))

\* C32: an AI answer that gives no array contributes no candidate and the
\* run goes on; of a parsed array every item with a valid URL becomes a
\* candidate, in order, and no other item does, wherever the invalid items
\* stand
C32_InvalidItemsDiscardedOnly ==
    \A r \in Runs : \A q \in {"q1", "q2"} :
        /\ log[r].source[q] = "failed" =>
               /\ From(allResults[r], q) = <<>>
               /\ log[r].cause \in {"none", "insert"}
        /\ log[r].source[q] = "ok" =>
               From(allResults[r], q) =
                   [i \in 1..Len(WithValidUrl(log[r].hits[q])) |->
                       CompanyCandidate(WithValidUrl(log[r].hits[q])[i], q)]

\* C33: in the market-analysis variant, when an error occurs after the scan
\* id was read (scan not found, analysis failed or unparseable, insert
\* refused), the catch block has asked the store to set that scan failed by
\* the time the error response is returned, and an existing scan is failed
\* unless the store refused the write
C33_MarketErrorMarksFailed ==
    (/\ mkt.pc = "done"
     /\ mkt.cause \in {"not_found", "analysis", "parse", "insert"})
        => /\ mkt.wrote \in {"failed", "failed_rejected"}
           /\ (mkt.wrote = "failed" /\ mkt.scanId \in DOMAIN scans)
                 => scans[mkt.scanId].status = "failed"

\* C34: after a single run, a scan whose status is failed has no result
\* row; a status write to completed that fails after the batch was inserted
\* leaves the scan as it was, not failed
C34_FailedScanHasNoResults ==
    \A s \in DOMAIN scans :
        scans[s].status = "failed" =>
            \A i \in 1..Len(scan_results) : scan_results[i].scan_id # s

\* the batch was inserted, the store refused the write of completed, and the
\* run has returned: the scan has its rows and is still processing
C34_Witness ==
    /\ pc[1] = "done"
    /\ log[1].wrote = "completed_rejected"
    /\ Len(RowsBy(1)) > 0
    /\ scans[scanId[1]].status = "processing"

\* C35: whenever a run has returned a success report, the stored status of
\* its scan is completed
C35_SuccessMeansCompleted ==
    \A r \in Runs :
        (pc[r] = "done" /\ response[r].success) =>
            /\ scanId[r] \in DOMAIN scans
            /\ scans[scanId[r]].status = "completed"

\* C36: every scan the form creates eventually has status completed or
\* failed, every call returning or failing
C36_CreatedScanLeavesProcessing ==
    \A s \in NewScanIds :
        (s \in DOMAIN scans)
            ~> (s \in DOMAIN scans /\ scans[s].status \in {"completed", "failed"})

\* C37: in the ScanResults view, whenever the stored status of the scan is
\* failed, the view eventually shows the failure message instead of the
\* spinner
C37_FailureIsEventuallyShown ==
    (view.pc = "mounted" /\ scans[view.scanId].status = "failed") ~> ShowsFailure

\* the scan is completed, the fetch has answered without error and every
\* realtime event has been handled
ViewSettled ==
    /\ view.pc = "mounted"
    /\ scans[view.scanId].status = "completed"
    /\ view.fetch = "done"
    /\ view.base + view.delivered = Len(RowsOf(view.scanId))
    /\ view.notified = "completed"

Count(rows, row) == Cardinality({i \in 1..Len(rows) : rows[i] = row})

\* C38: once the scan is completed and the view's callbacks have run, the
\* displayed list holds every stored row of the scan exactly once
C38_EveryResultShownOnce ==
    ViewSettled =>
        /\ Len(view.results) = Len(RowsOf(view.scanId))
        /\ \A i \in 1..Len(RowsOf(view.scanId)) :
              Count(view.results, RowsOf(view.scanId)[i]) = 1

\* C39: one payment reference never results in unlocks for two different
\* scans, nor in an unlock for a user other than the one who paid
C39_OneReferenceOneScanOnePayer ==
    \A g \in grants :
        /\ g.user_id = PayerOf(g.reference)
        /\ \A h \in grants : h.reference = g.reference => h.scan_id = g.scan_id

====
